---------------------------- MODULE Spec2Model ----------------------------
(***************************************************************************)
(* A model of grammarkdown's semantic checker (src/lib/checker.ts) and of  *)
(* the helpers of src/lib/core.ts it relies on.                            *)
(*                                                                         *)
(* Syntax nodes are records with a "kind", an "id" (the node's identity),  *)
(* "pos"/"end" offsets and the children of the kind.  An absent child is   *)
(* the record `undefined`; an array child that may be absent carries a     *)
(* has<Name> flag beside it.  Every check operator takes the checker's     *)
(* mutable state c and returns the state after the call; a JavaScript      *)
(* TypeError (a property read on undefined) and a cancellation are         *)
(* recorded in c.exception and end the call.                               *)
(***************************************************************************)
EXTENDS Integers, Sequences, FiniteSets, TLC

VARIABLES
    files,                          \* the compilation: the source files handed to the binder
    bindings,                       \* the BindingTable shared by binder, checker and resolver
    parents,                        \* the BindingTable's parent of every node
    options,                        \* CompilerOptions.noStrictParametricProductions
    checkedFileSet,                 \* Checker.checkedFileSet (its keys)
    noStrictParametricProductions,  \* Checker.noStrictParametricProductions
    sourceFile,                     \* Checker.sourceFile (the file's id, 0 = undefined)
    productionParametersByName,     \* Checker.productionParametersByName
    diagnostics,                    \* the DiagnosticMessages sink
    cancellationRequested,          \* the CancellationToken's state
    calls,                          \* the checkSourceFile calls made so far
    query                           \* the last Resolver query and its result

vars == <<files, bindings, parents, options, checkedFileSet, noStrictParametricProductions,
          sourceFile, productionParametersByName, diagnostics, cancellationRequested,
          calls, query>>

(***************************************************************************)
(* Syntax nodes                                                            *)
(***************************************************************************)
undefined == [kind |-> "undefined"]

IsDefined(node) == node.kind # "undefined"

\* A falsy string: JavaScript's "" (a missing text is modelled as "").
Falsy(text) == text = ""

Tok(kind, id) == [kind |-> kind, id |-> id, pos |-> 2 * id, end |-> 2 * id + 1]

OptTok(present, kind, id) == IF present THEN Tok(kind, id) ELSE undefined

Identifier(id, text) ==
    [kind |-> "Identifier", id |-> id, pos |-> 2 * id, end |-> 2 * id + 1, text |-> text]

Parameter(id, text) ==
    [kind |-> "Parameter", id |-> id, pos |-> 2 * id, end |-> 2 * id + 3,
     name |-> Identifier(id + 1, text)]

\* open: "OpenBracketToken", "OpenParenToken" or "none"; names: the parameters' texts.
ParameterList(id, open, hasElements, names, close) ==
    [kind |-> "ParameterList", id |-> id, pos |-> 2 * id, end |-> 2 * id + 21,
     openParenToken |-> IF open = "none" THEN undefined ELSE Tok(open, id + 1),
     hasElements |-> hasElements,
     elements |-> IF hasElements
                  THEN [i \in 1..Len(names) |-> Parameter(id + 2 * i, names[i])]
                  ELSE <<>>,
     closeParenToken |-> OptTok(close, "CloseBracketToken", id + 10)]

\* op: the operator token's kind, or "none".
Argument(id, op, text) ==
    [kind |-> "Argument", id |-> id, pos |-> 2 * id, end |-> 2 * id + 5,
     operatorToken |-> IF op = "none" THEN undefined ELSE Tok(op, id + 1),
     name |-> Identifier(id + 2, text)]

\* args: a sequence of <<op, text>>.
ArgumentList(id, open, hasElements, args, close) ==
    [kind |-> "ArgumentList", id |-> id, pos |-> 2 * id, end |-> 2 * id + 25,
     openParenToken |-> IF open = "none" THEN undefined ELSE Tok(open, id + 1),
     hasElements |-> hasElements,
     elements |-> IF hasElements
                  THEN [i \in 1..Len(args) |-> Argument(id - 1 + 3 * i, args[i][1], args[i][2])]
                  ELSE <<>>,
     closeParenToken |-> OptTok(close, "CloseBracketToken", id + 11)]

Terminal(id, text, question) ==
    [kind |-> "Terminal", id |-> id, pos |-> 2 * id, end |-> 2 * id + 3, text |-> text,
     questionToken |-> IF question = "none" THEN undefined ELSE Tok(question, id + 1)]

UnicodeCharacterLiteral(id, text, question) ==
    [kind |-> "UnicodeCharacterLiteral", id |-> id, pos |-> 2 * id, end |-> 2 * id + 3,
     text |-> text,
     questionToken |-> IF question = "none" THEN undefined ELSE Tok(question, id + 1)]

Nonterminal(id, text, argumentList, question) ==
    [kind |-> "Nonterminal", id |-> id, pos |-> 2 * id, end |-> 2 * id + 29,
     name |-> Identifier(id + 1, text),
     argumentList |-> argumentList,
     questionToken |-> IF question = "none" THEN undefined ELSE Tok(question, id + 14)]

UnicodeCharacterRange(id, left, through, right) ==
    [kind |-> "UnicodeCharacterRange", id |-> id, pos |-> 2 * id, end |-> 2 * id + 13,
     left |-> left, throughKeyword |-> OptTok(through, "ThroughKeyword", id + 3),
     right |-> right]

ButNotSymbol(id, left, but, not, right) ==
    [kind |-> "ButNotSymbol", id |-> id, pos |-> 2 * id, end |-> 2 * id + 17,
     left |-> left, butKeyword |-> OptTok(but, "ButKeyword", id + 4),
     notKeyword |-> OptTok(not, "NotKeyword", id + 5), right |-> right]

\* text: the goal's name; hasSymbol: whether the name node exists.
LexicalGoalAssertion(id, hasSymbol, text, close) ==
    [kind |-> "LexicalGoalAssertion", id |-> id, pos |-> 2 * id, end |-> 2 * id + 13,
     openBracketToken |-> Tok("OpenBracketToken", id + 1),
     lexicalKeyword |-> Tok("LexicalKeyword", id + 2),
     goalKeyword |-> Tok("GoalKeyword", id + 3),
     symbol |-> IF hasSymbol THEN Identifier(id + 4, text) ELSE undefined,
     closeBracketToken |-> OptTok(close, "CloseBracketToken", id + 5)]

\* op: the operator token's kind, or "none".
ParameterValueAssertion(id, op, hasName, text, close) ==
    [kind |-> "ParameterValueAssertion", id |-> id, pos |-> 2 * id, end |-> 2 * id + 13,
     openBracketToken |-> Tok("OpenBracketToken", id + 1),
     operatorToken |-> IF op = "none" THEN undefined ELSE Tok(op, id + 2),
     name |-> IF hasName THEN Identifier(id + 4, text) ELSE undefined,
     closeBracketToken |-> OptTok(close, "CloseBracketToken", id + 5)]

\* A prose fragment that is literal text.
ProseFragmentLiteral(id, text) ==
    [kind |-> "ProseFull", id |-> id, pos |-> 2 * id, end |-> 2 * id + 1, text |-> text]

Prose(id, fragments) ==
    [kind |-> "Prose", id |-> id, pos |-> 2 * id, end |-> 2 * id + 13,
     greaterThanToken |-> Tok("GreaterThanToken", id + 1), fragments |-> fragments]

EmptyAssertion(id) ==
    [kind |-> "EmptyAssertion", id |-> id, pos |-> 2 * id, end |-> 2 * id + 13,
     openBracketToken |-> Tok("OpenBracketToken", id + 1),
     emptyKeyword |-> Tok("EmptyKeyword", id + 2),
     closeBracketToken |-> Tok("CloseBracketToken", id + 5)]

LookaheadAssertion(id, op, lookahead) ==
    [kind |-> "LookaheadAssertion", id |-> id, pos |-> 2 * id, end |-> 2 * id + 13,
     openBracketToken |-> Tok("OpenBracketToken", id + 1),
     lookaheadKeyword |-> Tok("LookaheadKeyword", id + 2),
     operatorToken |-> IF op = "none" THEN undefined ELSE Tok(op, id + 3),
     lookahead |-> lookahead,
     closeBracketToken |-> Tok("CloseBracketToken", id + 6)]

NoSymbolHereAssertion(id, symbols) ==
    [kind |-> "NoSymbolHereAssertion", id |-> id, pos |-> 2 * id, end |-> 2 * id + 13,
     openBracketToken |-> Tok("OpenBracketToken", id + 1),
     noKeyword |-> Tok("NoKeyword", id + 2),
     symbols |-> symbols,
     hereKeyword |-> Tok("HereKeyword", id + 5),
     closeBracketToken |-> Tok("CloseBracketToken", id + 6)]

ProseAssertion(id, fragments) ==
    [kind |-> "ProseAssertion", id |-> id, pos |-> 2 * id, end |-> 2 * id + 13,
     openBracketToken |-> Tok("OpenBracketGreaterThanToken", id + 1),
     fragments |-> fragments,
     closeBracketToken |-> Tok("CloseBracketToken", id + 6)]

OneOfSymbol(id, symbols) ==
    [kind |-> "OneOfSymbol", id |-> id, pos |-> 2 * id, end |-> 2 * id + 13,
     oneKeyword |-> Tok("OneKeyword", id + 1), ofKeyword |-> Tok("OfKeyword", id + 2),
     symbols |-> symbols]

SymbolSpan(id, symbol, next) ==
    [kind |-> "SymbolSpan", id |-> id, pos |-> 2 * id, end |-> 2 * id + 39,
     symbol |-> symbol, next |-> next]

LinkReference(id, text) ==
    [kind |-> "LinkReference", id |-> id, pos |-> 2 * id, end |-> 2 * id + 1, text |-> text]

RightHandSide(id, head, reference) ==
    [kind |-> "RightHandSide", id |-> id, pos |-> 2 * id, end |-> 2 * id + 160,
     head |-> head, reference |-> reference]

\* terminals: the <<text, question>> of each terminal; question as in Terminal.
OneOfList(id, one, of, open, hasTerminals, terminals, close) ==
    [kind |-> "OneOfList", id |-> id, pos |-> 2 * id, end |-> 2 * id + 160,
     oneKeyword |-> OptTok(one, "OneKeyword", id + 1),
     ofKeyword |-> OptTok(of, "OfKeyword", id + 2),
     openIndentToken |-> OptTok(open, "IndentToken", id + 3),
     hasTerminals |-> hasTerminals,
     terminals |-> IF hasTerminals
                   THEN [i \in 1..Len(terminals) |->
                            Terminal(id + 4 + 2 * i, terminals[i][1], terminals[i][2])]
                   ELSE <<>>,
     closeIndentToken |-> OptTok(close, "DedentToken", id + 5)]

\* count: how many right-hand sides of one terminal the list holds.
RightHandSideList(id, open, hasElements, count, close) ==
    [kind |-> "RightHandSideList", id |-> id, pos |-> 2 * id, end |-> 2 * id + 160,
     openIndentToken |-> OptTok(open, "IndentToken", id + 1),
     hasElements |-> hasElements,
     elements |-> IF hasElements
                  THEN [i \in 1..count |->
                           RightHandSide(id + 20 * i,
                               SymbolSpan(id + 20 * i + 1,
                                          Terminal(id + 20 * i + 2, "t", "none"), undefined),
                               undefined)]
                  ELSE <<>>,
     closeIndentToken |-> OptTok(close, "DedentToken", id + 2)]

Production(id, text, parameterList, colon, body) ==
    [kind |-> "Production", id |-> id, pos |-> 2 * id, end |-> 2 * id + 199,
     name |-> Identifier(id + 1, text),
     parameterList |-> parameterList,
     colonToken |-> OptTok(colon, "ColonToken", id + 13),
     body |-> body]

\* value: "TrueKeyword", "FalseKeyword" or "none"; hasKey: whether the key node exists.
Define(id, hasKey, keyText, value) ==
    [kind |-> "Define", id |-> id, pos |-> 2 * id, end |-> 2 * id + 7,
     defineKeyword |-> Tok("DefineKeyword", id + 1),
     key |-> IF hasKey THEN Identifier(id + 2, keyText) ELSE undefined,
     valueToken |-> IF value = "none" THEN undefined ELSE Tok(value, id + 3)]

InvalidSourceElement(id) ==
    [kind |-> "InvalidSourceElement", id |-> id, pos |-> 2 * id, end |-> 2 * id + 1]

SourceFile(id, filename, elements) ==
    [kind |-> "SourceFile", id |-> id, pos |-> 2 * id, end |-> 2 * id + 1999,
     filename |-> filename, elements |-> elements]


(***************************************************************************)
(* Dictionary (core.ts): an object with an empty prototype, modelled as a  *)
(* function whose domain is the set of own keys.                           *)
(***************************************************************************)
NewDictionary == [k \in {} |-> TRUE]

\* The members every object with Object.prototype in its chain inherits.
ObjectPrototypeMembers ==
    {"constructor", "toString", "toLocaleString", "valueOf", "hasOwnProperty",
     "isPrototypeOf", "propertyIsEnumerable"}

\* Object.freeze(Object.create(null)): the members Dictionary.prototype provides.
createEmptyPrototype == {}

\* DictionaryHas as the in operator on an object that inherits from Object.prototype.
DictionaryHasInherited(object, key) == key \in DOMAIN object \cup ObjectPrototypeMembers

\* Object.prototype.hasOwnProperty.call(object, key)
DictionaryHas(object, key) == key \in DOMAIN object

DictionaryGet(object, key) == IF DictionaryHas(object, key) THEN object[key] ELSE undefined

DictionarySet(object, key, value) ==
    [k \in DOMAIN object \cup {key} |-> IF k = key THEN value ELSE object[k]]

(***************************************************************************)
(* The tree and the binding table.  The binder and the BindingTable are    *)
(* not part of the checker's source; they are modelled from the            *)
(* specification's data model: a total parent map, a symbol map written at *)
(* declaration sites, a global scope of Production symbols and one         *)
(* parameter scope per production.                                         *)
(***************************************************************************)
Defined(nodes) == SelectSeq(nodes, IsDefined)

forEachChild(node) ==
    CASE node.kind = "SourceFile" -> node.elements
      [] node.kind = "Production" ->
            Defined(<<node.name, node.parameterList, node.colonToken, node.body>>)
      [] node.kind = "ParameterList" ->
            Defined(<<node.openParenToken>>) \o node.elements \o Defined(<<node.closeParenToken>>)
      [] node.kind = "Parameter" -> <<node.name>>
      [] node.kind = "Define" -> Defined(<<node.defineKeyword, node.key, node.valueToken>>)
      [] node.kind = "RightHandSide" -> Defined(<<node.head, node.reference>>)
      [] node.kind = "LexicalGoalAssertion" ->
            Defined(<<node.openBracketToken, node.lexicalKeyword, node.goalKeyword,
                      node.symbol, node.closeBracketToken>>)
      [] node.kind = "ParameterValueAssertion" ->
            Defined(<<node.openBracketToken, node.operatorToken, node.name,
                      node.closeBracketToken>>)
      [] node.kind = "Prose" -> <<node.greaterThanToken>> \o node.fragments
      [] node.kind = "EmptyAssertion" ->
            <<node.openBracketToken, node.emptyKeyword, node.closeBracketToken>>
      [] node.kind = "LookaheadAssertion" ->
            Defined(<<node.openBracketToken, node.lookaheadKeyword, node.operatorToken,
                      node.lookahead, node.closeBracketToken>>)
      [] node.kind = "NoSymbolHereAssertion" ->
            <<node.openBracketToken, node.noKeyword>> \o node.symbols
                \o <<node.hereKeyword, node.closeBracketToken>>
      [] node.kind = "ProseAssertion" ->
            <<node.openBracketToken>> \o node.fragments \o <<node.closeBracketToken>>
      [] node.kind = "OneOfSymbol" -> <<node.oneKeyword, node.ofKeyword>> \o node.symbols
      [] node.kind = "OneOfList" ->
            Defined(<<node.oneKeyword, node.ofKeyword, node.openIndentToken>>)
                \o node.terminals \o Defined(<<node.closeIndentToken>>)
      [] node.kind = "RightHandSideList" ->
            Defined(<<node.openIndentToken>>) \o node.elements
                \o Defined(<<node.closeIndentToken>>)
      [] node.kind = "SymbolSpan" -> Defined(<<node.symbol, node.next>>)
      [] node.kind = "Nonterminal" ->
            Defined(<<node.name, node.argumentList, node.questionToken>>)
      [] node.kind = "ArgumentList" ->
            Defined(<<node.openParenToken>>) \o node.elements \o Defined(<<node.closeParenToken>>)
      [] node.kind = "Argument" -> Defined(<<node.operatorToken, node.name>>)
      [] node.kind \in {"Terminal", "UnicodeCharacterLiteral"} -> Defined(<<node.questionToken>>)
      [] node.kind = "UnicodeCharacterRange" ->
            Defined(<<node.left, node.throughKeyword, node.right>>)
      [] node.kind = "ButNotSymbol" ->
            Defined(<<node.left, node.butKeyword, node.notKeyword, node.right>>)
      [] OTHER -> <<>>

RECURSIVE ParentPairs(_)
\* <<child id, parent>> for every child among children and every node below it.
ChildPairs(node, children) ==
    UNION {{<<children[i].id, node>>} \cup ParentPairs(children[i]) : i \in 1..Len(children)}

ParentPairs(node) == ChildPairs(node, forEachChild(node))

PairsToMap(pairs) == [id \in {p[1] : p \in pairs} |-> (CHOOSE p \in pairs : p[1] = id)[2]]

\* The parents the binder recorded while it walked every file of the compilation.
ParentsByBinder == PairsToMap(UNION {ParentPairs(files[k]) : k \in 1..Len(files)})

\* this.bindings.getParent(node)
getParent(node) == IF node.id \in DOMAIN parents THEN parents[node.id] ELSE undefined

RECURSIVE AncestorFrom(_, _)
AncestorFrom(parent, kind) ==
    IF ~IsDefined(parent) THEN undefined
    ELSE IF parent.kind = kind THEN parent
    ELSE AncestorFrom(getParent(parent), kind)

getAncestor(node, kind) == AncestorFrom(getParent(node), kind)

ProductionSymbol(name) == [kind |-> "Production", name |-> name, owner |-> ""]

ParameterSymbol(owner, name) == [kind |-> "Parameter", name |-> name, owner |-> owner]

IsProduction(node) == node.kind = "Production"

RECURSIVE ProductionsOf(_)
\* Every production declaration of the compilation, in the binder's order.
ProductionsOf(sourceFiles) ==
    IF sourceFiles = <<>> THEN <<>>
    ELSE SelectSeq(Head(sourceFiles).elements, IsProduction) \o ProductionsOf(Tail(sourceFiles))

DeclaredParameters(production) ==
    IF IsDefined(production.parameterList)
    THEN {production.parameterList.elements[i].name.text :
             i \in 1..Len(production.parameterList.elements)} \ {""}
    ELSE {}

RECURSIVE ParametersOf(_)
\* Every parameter declaration of these productions, in the binder's order.
ParametersOf(productions) ==
    IF productions = <<>> THEN <<>>
    ELSE (IF IsDefined(Head(productions).parameterList)
          THEN Head(productions).parameterList.elements ELSE <<>>)
         \o ParametersOf(Tail(productions))

\* Symbol.declarations: the declarations of the symbol in binding order.
getDeclarations(symbol) ==
    LET all == ProductionsOf(files)
        Declares(production) == production.name.text = symbol.name
        Owns(production) == production.name.text = symbol.owner
        DeclaresParameter(parameter) == parameter.name.text = symbol.name
    IN  IF symbol.kind = "Production" THEN SelectSeq(all, Declares)
        ELSE SelectSeq(ParametersOf(SelectSeq(all, Owns)), DeclaresParameter)

\* The global scope: name -> Production symbol.
GlobalScope ==
    LET all == ProductionsOf(files)
    IN  {all[i].name.text : i \in 1..Len(all)} \ {""}

\* The parameter scope of the production named owner: name -> Parameter symbol.
ParameterScope(owner) ==
    LET all == ProductionsOf(files)
    IN  UNION {IF all[i].name.text = owner THEN DeclaredParameters(all[i]) ELSE {} :
                  i \in 1..Len(all)}

\* The production whose parameter scope a location sees: itself or the nearest ancestor.
EnclosingProduction(location) ==
    IF location.kind = "Production" THEN location ELSE getAncestor(location, "Production")

BindingsResolveSymbol(location, name, meaning) ==
    IF meaning = "Production"
    THEN IF name \in GlobalScope THEN ProductionSymbol(name) ELSE undefined
    ELSE LET production == EnclosingProduction(location)
         IN  IF IsDefined(production) /\ name \in ParameterScope(production.name.text)
             THEN ParameterSymbol(production.name.text, name)
             ELSE undefined

\* The symbol map the binder leaves behind: every declaration site is bound.
BoundByBinder ==
    LET all == ProductionsOf(files)
        Sites(production) ==
            {<<production.id, ProductionSymbol(production.name.text)>>} \cup
            (IF IsDefined(production.parameterList)
             THEN {<<production.parameterList.elements[i].id,
                     ParameterSymbol(production.name.text,
                                     production.parameterList.elements[i].name.text)>> :
                      i \in {j \in 1..Len(production.parameterList.elements) :
                                production.parameterList.elements[j].name.text # ""}}
             ELSE {})
        sites == UNION {Sites(all[i]) : i \in {j \in 1..Len(all) : all[j].name.text # ""}}
    IN  [id \in {s[1] : s \in sites} |-> (CHOOSE s \in sites : s[1] = id)[2]]

getSymbol(symbols, node) == IF node.id \in DOMAIN symbols THEN symbols[node.id] ELSE undefined

setSymbol(symbols, node, symbol) ==
    [id \in DOMAIN symbols \cup {node.id} |-> IF id = node.id THEN symbol ELSE symbols[id]]

(***************************************************************************)
(* The checker's mutable state and the diagnostics sink.                   *)
(***************************************************************************)
\* A diagnostic: where (a node's id, or 0 with an offset), which message, its arguments.
Diagnostic(node, pos, message, args) ==
    [node |-> node, pos |-> pos, message |-> message, args |-> args]

Throw(c, exception) == [c EXCEPT !.exception = exception]

Ok(c) == c.exception = "none"

\* Nothing runs once an exception is propagating.
report(c, pos, message, args) ==
    IF ~Ok(c) THEN c
    ELSE [c EXCEPT !.diagnostics = Append(@, Diagnostic(0, pos, message, args))]

\* DiagnosticMessages.reportNode reads the node's position.
reportNode(c, node, message, args) ==
    IF ~Ok(c) THEN c
    ELSE IF ~IsDefined(node) THEN Throw(c, "TypeError")
    ELSE [c EXCEPT !.diagnostics = Append(@, Diagnostic(node.id, node.pos, message, args))]

\* The result of a call that returns a value.
Return(c, value) == [c |-> c, value |-> value]

reportGrammarError(c, pos, message, args) == Return(report(c, pos, message, args), TRUE)

reportGrammarErrorForNode(c, location, message, args) ==
    Return(reportNode(c, location, message, args), TRUE)

resolveSymbol(c, location, name, meaning, diagnosticMessage) ==
    LET result == BindingsResolveSymbol(location, name, meaning)
    IN  IF ~IsDefined(result) /\ diagnosticMessage # ""
        THEN Return(reportNode(c, location, diagnosticMessage, <<name>>), result)
        ELSE Return(c, result)


(***************************************************************************)
(* Checker: identifiers                                                    *)
(***************************************************************************)
checkGrammarIdentifier(c, node) ==
    IF Falsy(node.text)
    THEN reportGrammarErrorForNode(c, node, "_0_expected", <<"Identifier">>)
    ELSE Return(c, FALSE)

\* if (!symbol) reportNode(node, Production_0_does_not_have_a_parameter_named_1_, ...)
reportUnresolvedParameter(r, node, production) ==
    IF IsDefined(r.value) THEN r
    ELSE IF ~IsDefined(production) THEN Return(Throw(r.c, "TypeError"), undefined)
    ELSE Return(reportNode(r.c, node, "Production_0_does_not_have_a_parameter_named_1_",
                           <<production.name.text, node.text>>), undefined)

\* The named-value form: the parameter scope of the nonterminal's target production.
checkIdentifierOfNamedArgument(p, node) ==
    IF IsDefined(p.value)
    THEN reportUnresolvedParameter(
             resolveSymbol(p.c, getDeclarations(p.value)[1], node.text, "Parameter", ""),
             node, getDeclarations(p.value)[1])
    ELSE Return(p.c, undefined)

\* checkIdentifierOfArgument with every argument resolved as the '?' form is.
checkIdentifierOfArgumentInPlace(c, node, argument, nonterminal) ==
    reportUnresolvedParameter(resolveSymbol(c, node, node.text, "Parameter", ""),
                              node, getAncestor(argument, "Production"))

\* The Argument case of checkIdentifier: the scope depends on the argument's operator.
checkIdentifierOfArgument(c, node, argument, nonterminal) ==
    IF IsDefined(argument.operatorToken) /\ argument.operatorToken.kind = "QuestionToken"
    THEN reportUnresolvedParameter(resolveSymbol(c, node, node.text, "Parameter", ""),
                                   node, getAncestor(argument, "Production"))
    ELSE IF IsDefined(nonterminal) /\ IsDefined(nonterminal.name)
            /\ ~Falsy(nonterminal.name.text)
    THEN checkIdentifierOfNamedArgument(
             resolveSymbol(c, node, nonterminal.name.text, "Production", ""), node)
    ELSE Return(c, undefined)

\* The Parameter case: the declaration's symbol against the scope's symbol.
checkIdentifierOfParameter(r, node, declarationSymbol) ==
    IF declarationSymbol # r.value
    THEN Return(reportNode(r.c, node, "Duplicate_identifier_0_", <<node.text>>), r.value)
    ELSE r

\* this.bindings.setSymbol(node, symbol); return symbol;
bindIdentifier(r, node) ==
    IF Ok(r.c) THEN Return([r.c EXCEPT !.symbols = setSymbol(@, node, r.value)], r.value)
    ELSE r

\* MeaningOfReference with the two SymbolKind arguments exchanged.
MeaningOfReferenceExchanged(parentKind) ==
    CASE parentKind \in {"LookaheadAssertion", "Nonterminal"} -> "Parameter"
      [] parentKind = "Parameter" -> "Production"
      [] OTHER -> "none"

\* Which namespace checkIdentifier searches for a reference under a parent of this kind.
MeaningOfReference(parentKind) ==
    CASE parentKind \in {"LookaheadAssertion", "Nonterminal"} -> "Production"
      [] parentKind = "Parameter" -> "Parameter"
      [] OTHER -> "none"

\* The default of the switch as if it resolved the name like a nonterminal's.
checkIdentifierUnderOtherResolved(g, node) ==
    bindIdentifier(resolveSymbol(g, node, node.text, "Production", "Cannot_find_name_0_"),
                   node)

\* No case of the switch matches: symbol stays undefined and is bound to the node.
checkIdentifierUnderOther(g, node) == bindIdentifier(Return(g, undefined), node)

checkIdentifierIn(g, node, parent) ==
    IF ~Ok(g) \/ Falsy(node.text) \/ ~IsDefined(parent) THEN Return(g, undefined)
    ELSE CASE parent.kind = "Parameter" ->
                  checkIdentifierOfParameter(
                      resolveSymbol(g, node, node.text, MeaningOfReference(parent.kind), ""),
                      node, getSymbol(g.symbols, parent))
           [] parent.kind = "Production" -> Return(g, getSymbol(g.symbols, parent))
           [] parent.kind \in {"LookaheadAssertion", "Nonterminal"} ->
                  bindIdentifier(
                      resolveSymbol(g, node, node.text, MeaningOfReference(parent.kind),
                                    "Cannot_find_name_0_"), node)
           [] parent.kind = "Argument" ->
                  bindIdentifier(
                      checkIdentifierOfArgument(g, node, parent,
                                                getAncestor(parent, "Nonterminal")), node)
           [] OTHER -> checkIdentifierUnderOther(g, node)

checkIdentifier(c, node) ==
    checkIdentifierIn(checkGrammarIdentifier(c, node).c, node, getParent(node))

(***************************************************************************)
(* Checker: the preprocessing pass                                         *)
(***************************************************************************)
checkGrammarDefine(c, node) ==
    IF ~IsDefined(node.key) \/ Falsy(node.key.text)
    THEN reportGrammarError(c, node.defineKeyword.end, "_0_expected", <<"Identifier">>)
    ELSE IF ~IsDefined(node.valueToken)
    THEN reportGrammarError(c, node.key.end, "_0_expected", <<"true, false">>)
    ELSE Return(c, FALSE)

\* applyDefine with the switch on the key's text left out: every key sets the flag.
applyDefineOfAnyKey(r, node) ==
    IF ~Ok(r.c) \/ r.value THEN r.c
    ELSE [r.c EXCEPT !.noStrictParametricProductions = node.valueToken.kind = "TrueKeyword"]

\* The body of preprocessDefine's if (!this.checkGrammarDefine(node)).
applyDefine(r, node) ==
    IF ~Ok(r.c) \/ r.value THEN r.c
    ELSE IF node.key.text = "noStrictParametricProductions"
    THEN [r.c EXCEPT !.noStrictParametricProductions = node.valueToken.kind = "TrueKeyword"]
    ELSE reportNode(r.c, node.key, "Cannot_find_name_0_", <<node.key.text>>)

preprocessDefine(c, node) == applyDefine(checkGrammarDefine(c, node), node)

preprocessSourceElement(c, node) ==
    IF node.kind = "Define" THEN preprocessDefine(c, node) ELSE c

(***************************************************************************)
(* Checker: productions and parameter lists                                *)
(***************************************************************************)
checkParameter(c, node) == checkIdentifier(c, node.name).c

checkGrammarParameterList(c, node) ==
    IF ~IsDefined(node.openParenToken)
    THEN reportGrammarError(c, node.pos, "_0_expected", <<"[">>)
    ELSE IF node.openParenToken.kind = "OpenParenToken"
    THEN reportGrammarErrorForNode(c, node.openParenToken, "Obsolete_0_", <<"parenthesis">>)
    ELSE IF ~node.hasElements
    THEN reportGrammarError(c, node.pos, "_0_expected", <<"Identifier">>)
    ELSE IF ~IsDefined(node.closeParenToken)
    THEN reportGrammarError(c, node.pos, "_0_expected", <<"]">>)
    ELSE Return(c, FALSE)

RECURSIVE checkParameters(_, _, _)
\* for (const element of node.elements) this.checkParameter(element);
checkParameters(c, node, i) ==
    IF ~Ok(c) THEN c
    ELSE IF ~node.hasElements THEN Throw(c, "TypeError")
    ELSE IF i > Len(node.elements) THEN c
    ELSE checkParameters(checkParameter(c, node.elements[i]), node, i + 1)

checkParameterList(c, node) ==
    IF ~Ok(c) THEN c ELSE checkParameters(checkGrammarParameterList(c, node).c, node, 1)

checkGrammarProduction(c, node) ==
    IF ~IsDefined(node.colonToken)
    THEN reportGrammarError(c,
             IF IsDefined(node.parameterList) THEN node.parameterList.end ELSE node.name.end,
             "_0_expected", <<":">>)
    ELSE IF ~IsDefined(node.body)
            \/ node.body.kind \notin {"OneOfList", "RightHandSide", "RightHandSideList"}
    THEN reportGrammarError(c,
             (IF IsDefined(node.parameterList) THEN node.parameterList.end ELSE node.name.end)
                 + node.colonToken.end,
             "_0_expected", <<"OneOfList, RightHandSide">>)
    ELSE Return(c, FALSE)

\* if (node.parameterList) this.checkParameterList(node.parameterList);
checkOwnParameterList(c, node) ==
    IF Ok(c) /\ IsDefined(node.parameterList) THEN checkParameterList(c, node.parameterList)
    ELSE c

checkProductionNonStrict(c, node) ==
    checkOwnParameterList(checkIdentifier(c, node.name).c, node)

RECURSIVE parametersByName(_, _, _)
\* The loop of getProductionParametersByName: the first occurrence of each truthy name.
parametersByName(parameters, i, names) ==
    IF i > Len(parameters) THEN names
    ELSE parametersByName(parameters, i + 1,
             IF ~Falsy(parameters[i].name.text)
                /\ ~DictionaryHas(names, parameters[i].name.text)
             THEN DictionarySet(names, parameters[i].name.text, TRUE)
             ELSE names)

ElementsOf(list) == IF IsDefined(list) /\ list.hasElements THEN list.elements ELSE <<>>

\* Dictionary.set(productionParametersByName, id, parametersByName); return parametersByName;
memoizeParameters(c, id, names) ==
    Return([c EXCEPT !.productionParametersByName.map = DictionarySet(@, id, names)], names)

getProductionParametersByName(c, node) ==
    IF ~c.productionParametersByName.defined THEN Return(Throw(c, "TypeError"), NewDictionary)
    ELSE IF DictionaryHas(c.productionParametersByName.map, node.id)
    THEN Return(c, DictionaryGet(c.productionParametersByName.map, node.id))
    ELSE memoizeParameters(c, node.id,
             parametersByName(ElementsOf(node.parameterList), 1, NewDictionary))

RECURSIVE reportMissingParameters(_, _, _, _, _, _)
\* Either loop of checkProductionStrict: one diagnostic at `location` for every
\* element of `parameters` whose name `names` does not hold.
reportMissingParameters(c, parameters, i, names, location, productionNameText) ==
    IF i > Len(parameters) \/ ~Ok(c) THEN c
    ELSE reportMissingParameters(
             IF ~DictionaryHas(names, parameters[i].name.text)
             THEN reportNode(c, location, "Production_0_is_missing_parameter_1_",
                             <<productionNameText, parameters[i].name.text>>)
             ELSE c,
             parameters, i + 1, names, location, productionNameText)

\* compareParameters with the two report locations exchanged.
compareParametersExchanged(f, thisNames, thisProduction, firstProduction) ==
    reportMissingParameters(
        reportMissingParameters(f.c, ElementsOf(firstProduction.parameterList), 1,
            thisNames, firstProduction, thisProduction.name.text),
        ElementsOf(thisProduction.parameterList), 1,
        f.value, thisProduction.name, thisProduction.name.text)

\* The two loops, once both name sets are there (f holds the state and the first's names).
compareParameters(f, thisNames, thisProduction, firstProduction) ==
    reportMissingParameters(
        reportMissingParameters(f.c, ElementsOf(firstProduction.parameterList), 1,
            thisNames, thisProduction.name, thisProduction.name.text),
        ElementsOf(thisProduction.parameterList), 1,
        f.value, firstProduction, thisProduction.name.text)

\* t holds the state and this production's names; reading firstProduction.parameterList
\* fails when the production's symbol has no declaration.
compareWithFirst(t, thisProduction, firstProduction) ==
    IF ~Ok(t.c) THEN t.c
    ELSE IF ~IsDefined(firstProduction) THEN Throw(t.c, "TypeError")
    ELSE compareParameters(getProductionParametersByName(t.c, firstProduction), t.value,
                           thisProduction, firstProduction)

\* checkProductionStrict past its parameter list (l is the state after it).
checkAgainstFirst(l, thisProduction, firstProduction) ==
    IF ~Ok(l) THEN l
    ELSE IF IsDefined(firstProduction) /\ firstProduction.id = thisProduction.id THEN l
    ELSE compareWithFirst(getProductionParametersByName(l, thisProduction),
                          thisProduction, firstProduction)

\* if (thisProductionParameterCount) this.checkParameterList(thisProduction.parameterList);
checkCountedParameterList(c, thisProduction) ==
    IF Ok(c) /\ Len(ElementsOf(thisProduction.parameterList)) > 0
    THEN checkParameterList(c, thisProduction.parameterList)
    ELSE c

FirstDeclaration(symbol) ==
    IF IsDefined(symbol) /\ getDeclarations(symbol) # <<>> THEN getDeclarations(symbol)[1]
    ELSE undefined

\* s is the result of checkIdentifier(thisProductionName).
checkProductionStrictOf(s, thisProduction) ==
    checkAgainstFirst(checkCountedParameterList(s.c, thisProduction), thisProduction,
                      FirstDeclaration(s.value))

checkProductionStrict(c, thisProduction) ==
    checkProductionStrictOf(checkIdentifier(c, thisProduction.name), thisProduction)

(***************************************************************************)
(* Checker: symbols                                                        *)
(***************************************************************************)
checkGrammarOptionalSymbol(c, node, allowOptional) ==
    IF ~IsDefined(node) THEN Return(Throw(c, "TypeError"), FALSE)
    ELSE IF IsDefined(node.questionToken)
            /\ (~allowOptional \/ node.questionToken.kind # "QuestionToken")
    THEN reportGrammarErrorForNode(c, node.questionToken, "Unexpected_token_0_",
                                   <<node.questionToken.kind>>)
    ELSE Return(c, FALSE)

checkGrammarTerminal(c, node) ==
    IF Falsy(node.text)
    THEN reportGrammarErrorForNode(c, node, "_0_expected", <<"Terminal">>)
    ELSE Return(c, FALSE)

\* The right operand of checkTerminal's || (o is the left operand's result).
orCheckGrammarTerminal(o, node) ==
    IF ~Ok(o.c) \/ o.value THEN o.c ELSE checkGrammarTerminal(o.c, node).c

checkTerminal(c, node, allowOptional) ==
    orCheckGrammarTerminal(checkGrammarOptionalSymbol(c, node, allowOptional), node)

checkGrammarUnicodeCharacterLiteral(c, node) ==
    IF Falsy(node.text)
    THEN reportGrammarErrorForNode(c, node, "_0_expected", <<"UnicodeCharacterLiteral">>)
    ELSE Return(c, FALSE)

orCheckGrammarUnicodeCharacterLiteral(o, node) ==
    IF ~Ok(o.c) \/ o.value THEN o.c ELSE checkGrammarUnicodeCharacterLiteral(o.c, node).c

checkUnicodeCharacterLiteral(c, node, allowOptional) ==
    IF ~Ok(c) THEN c
    ELSE orCheckGrammarUnicodeCharacterLiteral(
             checkGrammarOptionalSymbol(c, node, allowOptional), node)

\* JavaScript's a || b || c over nodes.
FirstDefined(nodes) == IF Defined(nodes) = <<>> THEN undefined ELSE Head(Defined(nodes))

checkGrammarUnicodeCharacterRange(c, node) ==
    IF ~IsDefined(node.left)
    THEN reportGrammarErrorForNode(c, FirstDefined(<<node.throughKeyword, node.right, node>>),
                                   "_0_expected", <<"UnicodeCharacterLiteral">>)
    ELSE IF ~IsDefined(node.throughKeyword)
    THEN reportGrammarErrorForNode(c, FirstDefined(<<node.right, node>>),
                                   "_0_expected", <<"ThroughKeyword">>)
    ELSE IF ~IsDefined(node.right)
    THEN reportGrammarError(c, node.end, "_0_expected", <<"UnicodeCharacterLiteral">>)
    ELSE Return(c, FALSE)

checkUnicodeCharacterRange(c, node) ==
    checkUnicodeCharacterLiteral(
        checkUnicodeCharacterLiteral(checkGrammarUnicodeCharacterRange(c, node).c,
                                     node.left, FALSE),
        node.right, FALSE)

checkGrammarArgument(c, node) ==
    IF IsDefined(node.operatorToken)
       /\ node.operatorToken.kind \notin {"QuestionToken", "PlusToken", "TildeToken"}
    THEN reportGrammarErrorForNode(c, node.operatorToken, "Unexpected_token_0_",
                                   <<node.operatorToken.kind>>)
    ELSE IF ~IsDefined(node.operatorToken) /\ ~c.noStrictParametricProductions
    THEN reportGrammarError(c, node.pos, "_0_expected",
                            <<"QuestionToken, PlusToken, TildeToken">>)
    ELSE Return(c, FALSE)

checkArgument(c, node) == checkIdentifier(checkGrammarArgument(c, node).c, node.name).c

checkGrammarArgumentList(c, node) ==
    IF ~IsDefined(node.openParenToken)
    THEN reportGrammarError(c, node.pos, "_0_expected", <<"[">>)
    ELSE IF node.openParenToken.kind = "OpenParenToken"
    THEN reportGrammarErrorForNode(c, node.openParenToken, "Obsolete_0_", <<"parenthesis">>)
    ELSE IF ~node.hasElements
    THEN reportGrammarError(c, node.pos, "_0_expected", <<"Identifier">>)
    ELSE IF ~IsDefined(node.closeParenToken)
    THEN reportGrammarError(c, node.pos, "_0_expected", <<"]">>)
    ELSE Return(c, FALSE)

RECURSIVE checkArguments(_, _, _)
\* if (node.elements) for (const element of node.elements) this.checkArgument(element);
checkArguments(c, node, i) ==
    IF ~Ok(c) \/ ~node.hasElements \/ i > Len(node.elements) THEN c
    ELSE checkArguments(checkArgument(c, node.elements[i]), node, i + 1)

checkArgumentList(c, node) ==
    IF ~Ok(c) THEN c ELSE checkArguments(checkGrammarArgumentList(c, node).c, node, 1)

\* if (node.argumentList) this.checkArgumentList(node.argumentList);
checkOwnArgumentList(c, node) ==
    IF Ok(c) /\ IsDefined(node.argumentList) THEN checkArgumentList(c, node.argumentList)
    ELSE c

checkNonterminalNonStrict(c, node) ==
    checkOwnArgumentList(checkIdentifier(c, node.name).c, node)

\* if (!parameterSymbol) reportNode(argumentName, Production_0_does_not_have_..., ...)
\* reportUnmatchedArgument without its report.
reportUnmatchedArgumentNever(r, argument, productionSymbol) == r.c

reportUnmatchedArgument(r, argument, productionSymbol) ==
    IF IsDefined(r.value) THEN r.c
    ELSE reportNode(r.c, argument.name, "Production_0_does_not_have_a_parameter_named_1_",
                    <<productionSymbol.name, argument.name.text>>)

RECURSIVE matchArgumentsUnrecorded(_, _, _, _, _, _)
\* matchArguments without Dictionary.set(nameSet, argumentNameText, true).
matchArgumentsUnrecorded(c, arguments, i, nameSet, production, productionSymbol) ==
    IF i > Len(arguments) \/ ~Ok(c) THEN Return(c, nameSet)
    ELSE IF DictionaryHas(nameSet, arguments[i].name.text)
    THEN matchArgumentsUnrecorded(
             reportNode(c, arguments[i].name, "Argument_0_cannot_be_specified_multiple_times",
                        <<arguments[i].name.text>>),
             arguments, i + 1, nameSet, production, productionSymbol)
    ELSE matchArgumentsUnrecorded(
             reportUnmatchedArgument(
                 resolveSymbol(c, production, arguments[i].name.text, "Parameter", ""),
                 arguments[i], productionSymbol),
             arguments, i + 1, nameSet, production, productionSymbol)

RECURSIVE matchArguments(_, _, _, _, _, _)
\* The first loop of checkNonterminalStrict; returns the state and the name set.
matchArguments(c, arguments, i, nameSet, production, productionSymbol) ==
    IF i > Len(arguments) \/ ~Ok(c) THEN Return(c, nameSet)
    ELSE IF DictionaryHas(nameSet, arguments[i].name.text)
    THEN matchArguments(
             reportNode(c, arguments[i].name, "Argument_0_cannot_be_specified_multiple_times",
                        <<arguments[i].name.text>>),
             arguments, i + 1, nameSet, production, productionSymbol)
    ELSE matchArguments(
             reportUnmatchedArgument(
                 resolveSymbol(c, production, arguments[i].name.text, "Parameter", ""),
                 arguments[i], productionSymbol),
             arguments, i + 1, DictionarySet(nameSet, arguments[i].name.text, TRUE),
             production, productionSymbol)

RECURSIVE matchParameters(_, _, _, _, _)
\* The second loop of checkNonterminalStrict.
matchParameters(c, parameters, i, nameSet, nonterminalName) ==
    IF i > Len(parameters) \/ ~Ok(c) THEN c
    ELSE matchParameters(
             IF ~DictionaryHas(nameSet, parameters[i].name.text)
             THEN reportNode(c, nonterminalName, "There_is_no_argument_given_for_parameter_0_",
                             <<parameters[i].name.text>>)
             ELSE c,
             parameters, i + 1, nameSet, nonterminalName)

\* m is the result of the first loop.
matchParametersOf(m, production, node) ==
    matchParameters(m.c, ElementsOf(production.parameterList), 1, m.value, node.name)

\* The body of if (productionSymbol): both counts read elements.length unguarded.
matchNonterminal(c, node, production, productionSymbol) ==
    IF ~IsDefined(production) THEN Throw(c, "TypeError")
    ELSE IF IsDefined(production.parameterList) /\ ~production.parameterList.hasElements
    THEN Throw(c, "TypeError")
    ELSE IF IsDefined(node.argumentList) /\ ~node.argumentList.hasElements
    THEN Throw(c, "TypeError")
    ELSE matchParametersOf(
             matchArguments(c, ElementsOf(node.argumentList), 1, NewDictionary,
                            production, productionSymbol),
             production, node)

\* s is the result of checkIdentifier(nonterminalName).
checkNonterminalStrictOf(s, node) ==
    IF ~Ok(s.c) \/ ~IsDefined(s.value) THEN s.c
    ELSE matchNonterminal(s.c, node, FirstDeclaration(s.value), s.value)

\* checkNonterminalStrict without its final checkArgumentList.
checkNonterminalStrictUnlisted(c, node) ==
    checkNonterminalStrictOf(checkIdentifier(c, node.name), node)

checkNonterminalStrict(c, node) ==
    checkOwnArgumentList(checkNonterminalStrictOf(checkIdentifier(c, node.name), node), node)

\* checkNonterminalIn with the strict branch taken in either mode.
checkNonterminalInStrict(g, node) ==
    IF ~Ok(g) THEN g ELSE checkNonterminalStrict(g, node)

\* g is the state after checkGrammarOptionalSymbol.
checkNonterminalIn(g, node) ==
    IF ~Ok(g) THEN g
    ELSE IF g.noStrictParametricProductions THEN checkNonterminalNonStrict(g, node)
    ELSE checkNonterminalStrict(g, node)

checkNonterminal(c, node, allowOptional) ==
    checkNonterminalIn(checkGrammarOptionalSymbol(c, node, allowOptional).c, node)

reportInvalidSymbol(c, node) ==
    reportGrammarErrorForNode(c, node, "_0_expected",
        <<"UnicodeCharacterLiteral, Terminal, Identifier, OpenBracketToken, OneKeyword">>).c

checkPrimarySymbol(c, node, allowOptional) ==
    IF ~Ok(c) THEN c
    ELSE IF ~IsDefined(node) THEN Throw(c, "TypeError")
    ELSE CASE node.kind = "Terminal" -> checkTerminal(c, node, allowOptional)
           [] node.kind = "UnicodeCharacterLiteral" ->
                  checkUnicodeCharacterLiteral(c, node, allowOptional)
           [] node.kind = "UnicodeCharacterRange" -> checkUnicodeCharacterRange(c, node)
           [] node.kind = "Nonterminal" -> checkNonterminal(c, node, allowOptional)
           [] node.kind = "AtToken" -> c
           [] OTHER -> reportInvalidSymbol(c, node)

checkOptionalSymbolOrHigher(c, node) == checkPrimarySymbol(c, node, TRUE)

\* The one-of symbol is not among the symbols this model builds.
checkUnarySymbolOrHigher(c, node) ==
    IF ~Ok(c) THEN c
    ELSE IF ~IsDefined(node) THEN Throw(c, "TypeError")
    ELSE checkOptionalSymbolOrHigher(c, node)

checkGrammarButNotSymbol(c, node) ==
    IF ~IsDefined(node.butKeyword)
    THEN reportGrammarErrorForNode(c, FirstDefined(<<node.notKeyword, node.right>>),
                                   "_0_expected", <<"ButKeyword">>)
    ELSE IF ~IsDefined(node.notKeyword)
    THEN reportGrammarErrorForNode(c, node.right, "_0_expected", <<"NotKeyword">>)
    ELSE IF ~IsDefined(node.right)
    THEN reportGrammarError(c, node.end, "_0_expected",
             <<"Identifier, Terminal, UnicodeCharacterLiteral, OneKeyword">>)
    ELSE Return(c, FALSE)

checkButNotSymbol(c, node) ==
    checkUnarySymbolOrHigher(
        checkUnarySymbolOrHigher(checkGrammarButNotSymbol(c, node).c, node.left),
        node.right)

checkButNotSymbolOrHigher(c, node) ==
    IF ~Ok(c) THEN c
    ELSE IF ~IsDefined(node) THEN Throw(c, "TypeError")
    ELSE IF node.kind = "ButNotSymbol" THEN checkButNotSymbol(c, node)
    ELSE checkUnarySymbolOrHigher(c, node)

isAssertion(node) ==
    IsDefined(node)
    /\ node.kind \in {"EmptyAssertion", "LookaheadAssertion", "LexicalGoalAssertion",
                      "NoSymbolHereAssertion", "ParameterValueAssertion", "ProseAssertion",
                      "InvalidAssertion"}

checkGrammarAssertionHead(c, node) ==
    IF ~IsDefined(node.openBracketToken)
    THEN reportGrammarError(c, node.pos, "_0_expected", <<"[">>)
    ELSE Return(c, FALSE)

checkGrammarAssertionTail(c, node) ==
    IF ~IsDefined(node.closeBracketToken)
    THEN reportGrammarError(c, node.end, "_0_expected", <<"]">>)
    ELSE Return(c, FALSE)

checkGrammarLexicalGoalAssertion(c, node) ==
    IF ~IsDefined(node.lexicalKeyword)
    THEN reportGrammarError(c, node.pos, "_0_expected", <<"lexical">>)
    ELSE IF ~IsDefined(node.goalKeyword)
    THEN reportGrammarError(c, node.lexicalKeyword.end, "_0_expected", <<"goal">>)
    ELSE IF ~IsDefined(node.symbol)
    THEN reportGrammarError(c, node.end, "_0_expected", <<"Identifier">>)
    ELSE Return(c, FALSE)

checkGrammarParameterValueAssertion(c, node) ==
    IF IsDefined(node.operatorToken)
       /\ node.operatorToken.kind \notin {"TildeToken", "PlusToken"}
    THEN reportGrammarErrorForNode(c, node.operatorToken, "Unexpected_token_0_",
                                   <<node.operatorToken.kind>>)
    ELSE Return(c, FALSE)

\* a || b: b runs only when a returned false.
orElseTail(o, node) ==
    IF ~Ok(o.c) \/ o.value THEN o.c ELSE checkGrammarAssertionTail(o.c, node).c

orElseLexicalGoal(o, node) ==
    IF ~Ok(o.c) \/ o.value THEN o ELSE checkGrammarLexicalGoalAssertion(o.c, node)

orElseParameterValue(o, node) ==
    IF ~Ok(o.c) \/ o.value THEN o ELSE checkGrammarParameterValueAssertion(o.c, node)

\* if (node.symbol) this.checkIdentifier(node.symbol);
checkOwnIdentifier(c, identifier) ==
    IF Ok(c) /\ IsDefined(identifier) THEN checkIdentifier(c, identifier).c ELSE c

checkLexicalGoalAssertion(c, node) ==
    checkOwnIdentifier(
        orElseTail(orElseLexicalGoal(checkGrammarAssertionHead(c, node), node), node),
        node.symbol)

checkParameterValueAssertion(c, node) ==
    checkOwnIdentifier(
        orElseTail(orElseParameterValue(checkGrammarAssertionHead(c, node), node), node),
        node.name)

\* The other assertion variants are not among the symbols this model builds.
checkAssertion(c, node) ==
    CASE node.kind = "LexicalGoalAssertion" -> checkLexicalGoalAssertion(c, node)
      [] node.kind = "ParameterValueAssertion" -> checkParameterValueAssertion(c, node)
      [] OTHER -> c

checkSymbolOrHigher(c, node) ==
    IF ~Ok(c) THEN c
    ELSE IF isAssertion(node) THEN checkAssertion(c, node)
    ELSE checkButNotSymbolOrHigher(c, node)

(***************************************************************************)
(* Checker: symbol spans, right-hand sides, productions                    *)
(***************************************************************************)
SymbolExpected == "UnicodeCharacterLiteral, Terminal, Identifier, OpenBracketToken"

checkGrammarSymbolSpanRest(c, node) ==
    IF ~IsDefined(node.symbol)
    THEN reportGrammarError(c, node.pos, "_0_expected", <<SymbolExpected, "LineTerminatorToken">>)
    ELSE IF node.symbol.kind = "Prose"
    THEN reportGrammarError(c, node.symbol.pos, "_0_expected", <<"LineTerminatorToken">>)
    ELSE IF IsDefined(node.next) /\ node.next.kind = "Prose"
    THEN reportGrammarError(c, node.next.pos, "_0_expected", <<"LineTerminatorToken">>)
    ELSE Return(c, FALSE)

RECURSIVE checkSymbolSpanRest(_, _)
\* if (node.next) this.checkSymbolSpanRest(node.next);
checkNextSymbolSpan(c, node) ==
    IF Ok(c) /\ IsDefined(node.next) THEN checkSymbolSpanRest(c, node.next) ELSE c

checkSymbolSpanRest(c, node) ==
    IF ~Ok(c) THEN c
    ELSE checkNextSymbolSpan(
             checkSymbolOrHigher(checkGrammarSymbolSpanRest(c, node).c, node.symbol), node)

checkGrammarSymbolSpan(c, node) ==
    IF ~IsDefined(node.symbol)
    THEN reportGrammarError(c, node.pos, "_0_expected", <<SymbolExpected, "Prose">>)
    ELSE IF IsDefined(node.next) /\ node.symbol.kind = "Prose"
    THEN reportGrammarError(c, node.symbol.end, "_0_expected", <<"LineTerminatorToken">>)
    ELSE Return(c, FALSE)

\* Prose is not among the symbols this model builds.
checkSymbolSpanOrHigher(c, node) ==
    IF ~Ok(c) THEN c
    ELSE IF ~IsDefined(node) THEN Throw(c, "TypeError")
    ELSE IF node.kind = "Prose" THEN c
    ELSE checkSymbolOrHigher(c, node)

checkSymbolSpan(c, node) ==
    IF ~Ok(c) THEN c
    ELSE IF ~IsDefined(node) THEN Throw(c, "TypeError")
    ELSE checkNextSymbolSpan(
             checkSymbolSpanOrHigher(checkGrammarSymbolSpan(c, node).c, node.symbol), node)

\* A link reference's text is a sequence of characters.
checkGrammarLinkReference(c, node) ==
    IF node.text = <<>> THEN reportGrammarErrorForNode(c, node, "_0_expected", <<"string">>)
    ELSE Return(c, FALSE)

checkLinkReference(c, node) == checkGrammarLinkReference(c, node).c

\* if (node.reference) this.checkLinkReference(node.reference);
checkOwnLinkReference(c, node) ==
    IF Ok(c) /\ IsDefined(node.reference) THEN checkLinkReference(c, node.reference) ELSE c

checkRightHandSide(c, node) == checkOwnLinkReference(checkSymbolSpan(c, node.head), node)

\* g is the state after checkGrammarProduction.
checkProductionParameters(g, node) ==
    IF g.noStrictParametricProductions THEN checkProductionNonStrict(g, node)
    ELSE checkProductionStrict(g, node)

checkGrammarOneOfList(c, node) ==
    IF ~IsDefined(node.oneKeyword)
    THEN reportGrammarError(c, node.pos, "_0_expected", <<"one">>)
    ELSE IF ~IsDefined(node.ofKeyword)
    THEN reportGrammarError(c, node.oneKeyword.end, "_0_expected", <<"of">>)
    ELSE IF ~node.hasTerminals
    THEN reportGrammarError(c, node.ofKeyword.end, "_0_expected", <<"Terminal">>)
    ELSE IF IsDefined(node.openIndentToken) /\ ~IsDefined(node.closeIndentToken)
    THEN reportGrammarError(c, node.end, "_0_expected", <<"DedentToken">>)
    ELSE Return(c, FALSE)

\* The body of checkOneOfList's loop, as if no text had been seen before.
checkOneOfTerminalAsNew(c, terminalSet, terminal) ==
    [c |-> checkTerminal(c, terminal, FALSE),
     terminalSet |-> DictionarySet(terminalSet, terminal.text, TRUE)]

\* The body of checkOneOfList's loop for one terminal.
checkOneOfTerminal(c, terminalSet, terminal) ==
    IF DictionaryHas(terminalSet, terminal.text)
    THEN [c |-> reportNode(c, terminal, "Duplicate_terminal_0_", <<terminal.text>>),
          terminalSet |-> terminalSet]
    ELSE [c |-> checkTerminal(c, terminal, FALSE),
          terminalSet |-> DictionarySet(terminalSet, terminal.text, TRUE)]

RECURSIVE checkOneOfTerminals(_, _, _)
\* s: the checker state and the terminalSet before terminal i.
checkOneOfTerminals(s, terminals, i) ==
    IF ~Ok(s.c) \/ i > Len(terminals) THEN s.c
    ELSE checkOneOfTerminals(checkOneOfTerminal(s.c, s.terminalSet, terminals[i]),
                             terminals, i + 1)

checkOneOfList(c, node) ==
    IF ~Ok(c) THEN c
    ELSE IF node.hasTerminals
    THEN checkOneOfTerminals([c |-> checkGrammarOneOfList(c, node).c,
                              terminalSet |-> NewDictionary], node.terminals, 1)
    ELSE checkGrammarOneOfList(c, node).c

checkGrammarRightHandSideList(c, node) ==
    IF ~IsDefined(node.openIndentToken)
    THEN reportGrammarErrorForNode(c, node, "_0_expected", <<"IndentToken">>)
    ELSE IF ~node.hasElements \/ Len(node.elements) = 0
    THEN reportGrammarErrorForNode(c, node, "_0_expected",
                                   <<"Terminal, Identifier, OpenBracketToken">>)
    ELSE IF ~IsDefined(node.closeIndentToken)
    THEN reportGrammarError(c, node.end, "_0_expected", <<"DedentToken">>)
    ELSE Return(c, FALSE)

RECURSIVE checkRightHandSides(_, _, _)
checkRightHandSides(c, elements, i) ==
    IF ~Ok(c) \/ i > Len(elements) THEN c
    ELSE checkRightHandSides(checkRightHandSide(c, elements[i]), elements, i + 1)

checkRightHandSideList(c, node) ==
    IF ~Ok(c) THEN c
    ELSE checkRightHandSides(checkGrammarRightHandSideList(c, node).c, node.elements, 1)

\* if (node.body) switch (node.body.kind) ...
checkProductionBody(c, node) ==
    IF ~Ok(c) \/ ~IsDefined(node.body) THEN c
    ELSE CASE node.body.kind = "OneOfList" -> checkOneOfList(c, node.body)
           [] node.body.kind = "RightHandSideList" -> checkRightHandSideList(c, node.body)
           [] node.body.kind = "RightHandSide" -> checkRightHandSide(c, node.body)
           [] OTHER -> c

checkProduction(c, node) ==
    checkProductionBody(checkProductionParameters(checkGrammarProduction(c, node).c, node), node)

reportInvalidSourceElement(c, node) ==
    reportGrammarErrorForNode(c, node, "_0_expected", <<"Production">>).c

\* checkSourceElement without its InvalidSourceElement case.
checkSourceElementOfProduction(c, node) ==
    IF node.kind = "Production" THEN checkProduction(c, node) ELSE c

checkSourceElement(c, node) ==
    CASE node.kind = "Production" -> checkProduction(c, node)
      [] node.kind = "InvalidSourceElement" -> reportInvalidSourceElement(c, node)
      [] OTHER -> c

(***************************************************************************)
(* Checker.checkSourceFile                                                 *)
(***************************************************************************)
RECURSIVE preprocessSourceElements(_, _, _)
preprocessSourceElements(c, elements, i) ==
    IF ~Ok(c) \/ i > Len(elements) THEN c
    ELSE preprocessSourceElements(preprocessSourceElement(c, elements[i]), elements, i + 1)

RECURSIVE checkSourceElements(_, _, _)
checkSourceElements(c, elements, i) ==
    IF ~Ok(c) \/ i > Len(elements) THEN c
    ELSE checkSourceElements(checkSourceElement(c, elements[i]), elements, i + 1)

\* this.productionParametersByName = undefined;
UndefinedParameters == [defined |-> FALSE, map |-> NewDictionary]

\* The key under which checkedFileSet records a file.
CheckedKey(file) == file.filename

\* CancellationToken.throwIfCancellationRequested.
throwIfCancellationRequested(c, cancelled) == IF cancelled THEN Throw(c, "Cancelled") ELSE c

\* Lines 98-100: the per-file state.
enterSourceFile(c, file) ==
    IF ~Ok(c) THEN c
    ELSE [c EXCEPT !.productionParametersByName = [defined |-> TRUE, map |-> NewDictionary],
                   !.sourceFile = file.id]

\* leaveSourceFile without line 113: the file is never recorded as checked.
leaveSourceFileUnrecorded(c, file, savedNoStrictParametricProductions) ==
    IF ~Ok(c) THEN c
    ELSE [c EXCEPT !.sourceFile = 0,
                   !.productionParametersByName = UndefinedParameters,
                   !.noStrictParametricProductions = savedNoStrictParametricProductions]

\* Lines 110-113, reached only when both passes returned.
leaveSourceFile(c, file, savedNoStrictParametricProductions) ==
    IF ~Ok(c) THEN c
    ELSE [c EXCEPT !.sourceFile = 0,
                   !.productionParametersByName = UndefinedParameters,
                   !.noStrictParametricProductions = savedNoStrictParametricProductions,
                   !.checkedFileSet = DictionarySet(@, CheckedKey(file), TRUE)]

RECURSIVE processSourceElements(_, _, _)
\* One loop that preprocesses and checks each element in turn.
processSourceElements(c, elements, i) ==
    IF ~Ok(c) \/ i > Len(elements) THEN c
    ELSE processSourceElements(
             checkSourceElement(preprocessSourceElement(c, elements[i]), elements[i]),
             elements, i + 1)

\* checkSourceFile with its two loops fused into one.
checkSourceFileInOnePass(c, file, cancelled) ==
    IF DictionaryHas(c.checkedFileSet, CheckedKey(file)) THEN c
    ELSE leaveSourceFile(
             processSourceElements(
                 enterSourceFile(throwIfCancellationRequested(c, cancelled), file),
                 file.elements, 1),
             file, c.noStrictParametricProductions)

checkSourceFile(c, file, cancelled) ==
    IF DictionaryHas(c.checkedFileSet, CheckedKey(file)) THEN c
    ELSE leaveSourceFile(
             checkSourceElements(
                 preprocessSourceElements(
                     enterSourceFile(throwIfCancellationRequested(c, cancelled), file),
                     file.elements, 1),
                 file.elements, 1),
             file, c.noStrictParametricProductions)

(***************************************************************************)
(* The checker as a state machine: a session of checkSourceFile calls on   *)
(* the files of one compilation, with a cancellation token that may be     *)
(* signalled between calls.                                                *)
(***************************************************************************)
MaxCalls == 3

MaxElements == 2

\* The checker's fields as the record the check operators thread.
CheckerState ==
    [checkedFileSet |-> checkedFileSet,
     noStrictParametricProductions |-> noStrictParametricProductions,
     sourceFile |-> sourceFile,
     productionParametersByName |-> productionParametersByName,
     diagnostics |-> diagnostics,
     symbols |-> bindings,
     exception |-> "none"]

\* What the caller of checkSourceFile observes.
Outcome(before, after, file) ==
    IF after.exception # "none" THEN after.exception
    ELSE IF DictionaryHas(before.checkedFileSet, CheckedKey(file)) THEN "skipped"
    ELSE "completed"

\* One record per call: the file, whether cancellation was requested at the call,
\* the outcome, the sink's length before and after, whether any field changed.
CallRecord(k, before, after) ==
    [file |-> k,
     cancelled |-> cancellationRequested,
     outcome |-> Outcome(before, after, files[k]),
     from |-> Len(before.diagnostics),
     to |-> Len(after.diagnostics),
     kept |-> SubSeq(after.diagnostics, 1, Len(before.diagnostics)) = before.diagnostics,
     changed |-> [after EXCEPT !.exception = "none"] # before]

CheckSourceFileFrom(k, before, after) ==
    /\ checkedFileSet' = after.checkedFileSet
    /\ noStrictParametricProductions' = after.noStrictParametricProductions
    /\ sourceFile' = after.sourceFile
    /\ productionParametersByName' = after.productionParametersByName
    /\ diagnostics' = after.diagnostics
    /\ bindings' = after.symbols
    /\ calls' = Append(calls, CallRecord(k, before, after))
    /\ UNCHANGED <<files, parents, options, cancellationRequested, query>>

\* checker.checkSourceFile(files[k])
CheckSourceFile(k) ==
    /\ Len(calls) < MaxCalls
    /\ CheckSourceFileFrom(k, CheckerState,
                           checkSourceFile(CheckerState, files[k], cancellationRequested))

\* The host signals the cancellation token.
RequestCancellation ==
    /\ ~cancellationRequested
    /\ cancellationRequested' = TRUE
    /\ UNCHANGED <<files, bindings, parents, options, checkedFileSet, noStrictParametricProductions,
                   sourceFile, productionParametersByName, diagnostics, calls, query>>

NoQuery == [op |-> "none"]

\* The state after the binder ran over sourceFiles and a Checker was constructed.
Constructed(sourceFiles, noStrict) ==
    /\ files = sourceFiles
    /\ options = noStrict
    /\ bindings = BoundByBinder
    /\ parents = ParentsByBinder
    /\ checkedFileSet = NewDictionary
    /\ noStrictParametricProductions = noStrict
    /\ sourceFile = 0
    /\ productionParametersByName = UndefinedParameters
    /\ diagnostics = <<>>
    /\ cancellationRequested = FALSE
    /\ calls = <<>>
    /\ query = NoQuery

SeqsUpTo(S, n) == UNION {[1..m -> S] : m \in 0..n}

\* The node identities of element j of file k start at ElementId(k, j).
FileId(k) == 1000 * k

ElementId(k, j) == 1000 * k + 100 * j

\* A one-symbol right-hand side at e.
Body(e, symbol) == RightHandSide(e + 14, SymbolSpan(e + 20, symbol, undefined), undefined)

FileNames == {"a.grammar", "b.grammar"}

SessionElementKinds == {"DefineOn", "DefineOff", "Production", "Malformed"}

\* @define on/off; A[x] : A; B : <a symbol span without its symbol>.
SessionElement(kind, e) ==
    CASE kind = "DefineOn" -> Define(e, TRUE, "noStrictParametricProductions", "TrueKeyword")
      [] kind = "DefineOff" -> Define(e, TRUE, "noStrictParametricProductions", "FalseKeyword")
      [] kind = "Production" ->
            Production(e, "A", ParameterList(e + 2, "OpenBracketToken", TRUE, <<"x">>, TRUE),
                       TRUE, Body(e, Nonterminal(e + 21, "A", undefined, "none")))
      [] kind = "Malformed" ->
            Production(e, "B", undefined, TRUE,
                       RightHandSide(e + 14, SymbolSpan(e + 20, undefined, undefined),
                                     undefined))

SessionFile(k, filename, kinds) ==
    SourceFile(FileId(k), filename,
               [j \in 1..Len(kinds) |-> SessionElement(kinds[j], ElementId(k, j))])

Init ==
    \E name \in FileNames, kinds1, kinds2 \in SeqsUpTo(SessionElementKinds, MaxElements),
       noStrict \in BOOLEAN :
        Constructed(<<SessionFile(1, "a.grammar", kinds1), SessionFile(2, name, kinds2)>>,
                    noStrict)

Next == (\E k \in 1..Len(files) : CheckSourceFile(k)) \/ RequestCancellation

Spec == Init /\ [][Next]_vars

(***************************************************************************)
(* Claims about the session                                                *)
(***************************************************************************)
\* C1: once a checkSourceFile call on a file has returned, every later call on that
\* file emits no diagnostic and changes no field of the checker, so checking a file
\* twice leaves the diagnostics of checking it once.
C1_RecheckIsNoOp ==
    \A i, j \in 1..Len(calls) :
        (i < j /\ calls[i].file = calls[j].file
               /\ calls[i].outcome \in {"completed", "skipped"})
            => (calls[j].outcome = "skipped" /\ calls[j].to = calls[j].from
                /\ ~calls[j].changed)

\* A file whose check emitted diagnostics is checked again, with the token signalled.
C1_Witness ==
    \E i, j \in 1..Len(calls) :
        /\ i < j /\ calls[i].file = calls[j].file
        /\ calls[i].outcome = "completed" /\ calls[i].to > calls[i].from
        /\ calls[j].cancelled /\ calls[j].outcome = "skipped"

\* C2: a call made with cancellation requested, on a file no earlier call has checked,
\* aborts with the cancellation outcome, emits no diagnostic, and leaves every earlier
\* diagnostic in the sink.
C2_CancelledCallAborts ==
    \A i \in 1..Len(calls) :
        (/\ calls[i].cancelled
         /\ \A j \in 1..(i - 1) :
                ~(calls[j].file = calls[i].file /\ calls[j].outcome = "completed"))
            => (calls[i].outcome = "Cancelled" /\ calls[i].to = calls[i].from
                /\ calls[i].kept)

\* C3: between calls the strictness flag is the configured one.
C3_StrictnessRestored == noStrictParametricProductions = options

(***************************************************************************)
(* Files with one construct that lacks a required sub-component            *)
(***************************************************************************)
MalformedKinds == {"NoElementArray", "NoSymbol", "NoRight", "NoLeft", "NoRightLiteral"}

\* M[ : `t`;  M : <no symbol>;  M : `t` but not <nothing>;  M : <nothing> through U+0001;
\* M : U+0001 through <nothing>.
MalformedElement(kind, e) ==
    CASE kind = "NoElementArray" ->
            Production(e, "M", ParameterList(e + 2, "OpenBracketToken", FALSE, <<>>, TRUE),
                       TRUE, Body(e, Terminal(e + 21, "t", "none")))
      [] kind = "NoSymbol" -> SessionElement("Malformed", e)
      [] kind = "NoRight" ->
            Production(e, "M", undefined, TRUE,
                       Body(e, ButNotSymbol(e + 21, Terminal(e + 22, "t", "none"),
                                            TRUE, TRUE, undefined)))
      [] kind = "NoLeft" ->
            Production(e, "M", undefined, TRUE,
                       Body(e, UnicodeCharacterRange(e + 21, undefined, TRUE,
                                UnicodeCharacterLiteral(e + 27, "U+0001", "none"))))
      [] kind = "NoRightLiteral" ->
            Production(e, "M", undefined, TRUE,
                       Body(e, UnicodeCharacterRange(e + 21,
                                UnicodeCharacterLiteral(e + 22, "U+0001", "none"),
                                TRUE, undefined)))

\* The malformed production before or after a well-formed sibling.
MalformedFile(kind, first) ==
    SourceFile(FileId(1), "a.grammar",
               IF first
               THEN <<MalformedElement(kind, ElementId(1, 1)),
                      SessionElement("Production", ElementId(1, 2))>>
               ELSE <<SessionElement("Production", ElementId(1, 1)),
                      MalformedElement(kind, ElementId(1, 2))>>)

MalformedInit ==
    \E kind \in MalformedKinds, first, noStrict \in BOOLEAN :
        Constructed(<<MalformedFile(kind, first),
                      SessionFile(2, "b.grammar", <<"Production">>)>>, noStrict)

MalformedSpec == MalformedInit /\ [][Next]_vars

\* C10: a call made without cancellation returns normally, and the file is then
\* recorded as checked.
C10_MalformedFileCompletes ==
    \A i \in 1..Len(calls) :
        ~calls[i].cancelled
            => (/\ calls[i].outcome \in {"completed", "skipped"}
                /\ DictionaryHas(checkedFileSet, CheckedKey(files[calls[i].file])))

(***************************************************************************)
(* Two declarations of one production P, each with its own parameter list, *)
(* in one file or in two.                                                  *)
(***************************************************************************)
MaxParameters == 2

ParameterNames == {"x", "y"}

\* No list; a list without its element array; a list of 0..MaxParameters parameters;
\* each with or without its closing bracket.
ParameterShapes ==
    {[present |-> FALSE, hasElements |-> FALSE, names |-> <<>>, close |-> FALSE]}
    \cup {[present |-> TRUE, hasElements |-> FALSE, names |-> <<>>, close |-> close] :
             close \in BOOLEAN}
    \cup {[present |-> TRUE, hasElements |-> TRUE, names |-> names, close |-> close] :
             names \in SeqsUpTo(ParameterNames, MaxParameters), close \in BOOLEAN}

\* P<shape> : `t`
Declaration(e, shape) ==
    Production(e, "P",
               IF shape.present
               THEN ParameterList(e + 2, "OpenBracketToken", shape.hasElements, shape.names,
                                  shape.close)
               ELSE undefined,
               TRUE, Body(e, Terminal(e + 21, "t", "none")))

\* The second declaration follows the first in file 1, or is alone in file 2.
DeclarationFiles(first, second, apart) ==
    IF apart
    THEN <<SourceFile(FileId(1), "a.grammar", <<Declaration(ElementId(1, 1), first)>>),
           SourceFile(FileId(2), "b.grammar", <<Declaration(ElementId(2, 1), second)>>)>>
    ELSE <<SourceFile(FileId(1), "a.grammar",
                      <<Declaration(ElementId(1, 1), first),
                        Declaration(ElementId(1, 2), second)>>),
           SourceFile(FileId(2), "b.grammar", <<>>)>>

ParameterInit ==
    \E first, second \in ParameterShapes, apart, noStrict \in BOOLEAN :
        Constructed(DeclarationFiles(first, second, apart), noStrict)

ParameterSpec == ParameterInit /\ [][Next]_vars

FirstDeclared == files[1].elements[1]

SecondDeclared ==
    IF Len(files[1].elements) > 1 THEN files[1].elements[2] ELSE files[2].elements[1]

\* Whether a call has run the check of the file holding the node with identity id.
Checked(id, outcomes) ==
    \E i \in 1..Len(calls) : calls[i].file = id \div 1000 /\ calls[i].outcome \in outcomes

MissingParameter == "Production_0_is_missing_parameter_1_"

\* How many diagnostics in the sink carry this message (and arguments, and location).
CountMessage(message) ==
    Cardinality({i \in 1..Len(diagnostics) : diagnostics[i].message = message})

CountAt(message, args, node) ==
    Cardinality({i \in 1..Len(diagnostics) :
                    /\ diagnostics[i].message = message
                    /\ diagnostics[i].args = args
                    /\ diagnostics[i].node = node})

OneParameter(production) ==
    /\ IsDefined(production.parameterList)
    /\ production.parameterList.hasElements
    /\ Len(production.parameterList.elements) = 1

\* C4: in strict mode, with the first declaration P[p] and the second P[q], once the
\* second declaration's file is checked the sink holds, for p # q, exactly one
\* missing-parameter diagnostic naming p, at the second declaration's name, and exactly
\* one naming q, at the first declaration, and no other; for p = q it holds none.
C4_MissingParametersBothWays ==
    (/\ ~options
     /\ OneParameter(FirstDeclared) /\ OneParameter(SecondDeclared)
     /\ Checked(SecondDeclared.id, {"completed"}))
        => IF FirstDeclared.parameterList.elements[1].name.text
              # SecondDeclared.parameterList.elements[1].name.text
           THEN /\ CountAt(MissingParameter,
                           <<"P", FirstDeclared.parameterList.elements[1].name.text>>,
                           SecondDeclared.name.id) = 1
                /\ CountAt(MissingParameter,
                           <<"P", SecondDeclared.parameterList.elements[1].name.text>>,
                           FirstDeclared.id) = 1
                /\ CountMessage(MissingParameter) = 2
           ELSE CountMessage(MissingParameter) = 0

\* P[x] then P[y], in two files, both checked, the second declaration's file first.
C4_Witness ==
    /\ ~options
    /\ OneParameter(FirstDeclared) /\ OneParameter(SecondDeclared)
    /\ FirstDeclared.parameterList.elements[1].name.text = "x"
    /\ SecondDeclared.parameterList.elements[1].name.text = "y"
    /\ Len(calls) = 2 /\ calls[1].file = 2 /\ calls[2].file = 1
    /\ calls[1].outcome = "completed" /\ calls[2].outcome = "completed"
    /\ CountMessage(MissingParameter) = 2

\* How many structural diagnostics the sink holds for a parameter list.
CountForList(list) ==
    Cardinality({i \in 1..Len(diagnostics) :
                    \/ /\ diagnostics[i].node = 0
                       /\ diagnostics[i].pos = list.pos
                       /\ diagnostics[i].message = "_0_expected"
                    \/ /\ IsDefined(list.openParenToken)
                       /\ diagnostics[i].node = list.openParenToken.id})

\* C8: once the check of its file has run, a production whose parameter list lacks the
\* closing bracket has exactly one structural diagnostic for the list, in either mode
\* and for any number of parameters.
C8_OneDiagnosticForUnclosedList ==
    \A production \in {FirstDeclared, SecondDeclared} :
        (/\ IsDefined(production.parameterList)
         /\ ~IsDefined(production.parameterList.closeParenToken)
         /\ Checked(production.id, {"completed", "TypeError"}))
            => CountForList(production.parameterList) = 1

(***************************************************************************)
(* A production that references a production with arguments, followed by a *)
(* second production declaration; production and parameter names overlap.  *)
(***************************************************************************)
MaxArguments == 2

ProductionNames == {"a", "Q"}

ArgumentNames == {"a", "b"}

ArgumentOperators == {"PlusToken", "QuestionToken"}

\* <target><arguments>, without an argument list when there is no argument.
Reference(s, target, arguments) ==
    Nonterminal(s, target,
                IF arguments = <<>> THEN undefined
                ELSE ArgumentList(s + 2, "OpenBracketToken", TRUE, arguments, TRUE),
                "none")

\* <owner>[formals] : <target><arguments>   and   <other>[otherFormals] : `t`
ReferenceFile(owner, formals, target, arguments, other, otherFormals) ==
    SourceFile(FileId(1), "a.grammar",
        <<Production(ElementId(1, 1), owner,
                     ParameterList(ElementId(1, 1) + 2, "OpenBracketToken", TRUE, formals, TRUE),
                     TRUE,
                     Body(ElementId(1, 1), Reference(ElementId(1, 1) + 21, target, arguments))),
          Production(ElementId(1, 2), other,
                     ParameterList(ElementId(1, 2) + 2, "OpenBracketToken", TRUE, otherFormals,
                                   TRUE),
                     TRUE, Body(ElementId(1, 2), Terminal(ElementId(1, 2) + 21, "t", "none")))>>)

NonterminalInit ==
    \E owner, target, other \in ProductionNames,
       formals \in SeqsUpTo(ArgumentNames, 2), otherFormals \in SeqsUpTo(ArgumentNames, 1),
       arguments \in SeqsUpTo(ArgumentOperators \X ArgumentNames, MaxArguments),
       noStrict \in BOOLEAN :
        Constructed(<<ReferenceFile(owner, formals, target, arguments, other, otherFormals)>>,
                    noStrict)

NonterminalSpec == NonterminalInit /\ [][Next]_vars

Referencing == files[1].elements[1].body.head.symbol

\* The formal parameters a strict check matches the reference's arguments against.
TargetParameters ==
    ElementsOf(FirstDeclaration(ProductionSymbol(Referencing.name.text)).parameterList)

Supplied == ElementsOf(Referencing.argumentList)

NoArgumentGiven == "There_is_no_argument_given_for_parameter_0_"

SpecifiedMultipleTimes == "Argument_0_cannot_be_specified_multiple_times"

\* C5: in strict mode, once the file is checked and the reference's target resolves:
\* for each name, the missing-argument diagnostics naming it are as many as the formal
\* parameters of the target's first declaration carrying it when no argument names it,
\* and none when an argument does, all located at the reference's name; and an argument
\* has one multiple-times diagnostic at its name exactly when an earlier argument of
\* the reference carries the same name.
C5_ArgumentsMatchedByName ==
    (/\ ~options
     /\ Referencing.name.text \in GlobalScope
     /\ Checked(Referencing.id, {"completed"}))
        => /\ \A name \in ArgumentNames :
                CountAt(NoArgumentGiven, <<name>>, Referencing.name.id) =
                    IF \E j \in 1..Len(Supplied) : Supplied[j].name.text = name
                    THEN 0
                    ELSE Cardinality({i \in 1..Len(TargetParameters) :
                                         TargetParameters[i].name.text = name})
           /\ \A i \in 1..Len(diagnostics) :
                diagnostics[i].message = NoArgumentGiven
                    => diagnostics[i].node = Referencing.name.id
           /\ \A j \in 1..Len(Supplied) :
                CountAt(SpecifiedMultipleTimes, <<Supplied[j].name.text>>,
                        Supplied[j].name.id) =
                    IF \E i \in 1..(j - 1) : Supplied[i].name.text = Supplied[j].name.text
                    THEN 1 ELSE 0
           /\ CountMessage(SpecifiedMultipleTimes) =
                Cardinality({j \in 1..Len(Supplied) :
                    \E i \in 1..(j - 1) : Supplied[i].name.text = Supplied[j].name.text})

\* Q[a, b] : Q[+a, +a] checked in strict mode: b is missing, a is given twice.
C5_Witness ==
    /\ ~options
    /\ Checked(Referencing.id, {"completed"})
    /\ Referencing.name.text \in GlobalScope
    /\ Len(TargetParameters) = 2 /\ Len(Supplied) = 2
    /\ CountAt(NoArgumentGiven, <<"b">>, Referencing.name.id) = 1
    /\ CountAt(SpecifiedMultipleTimes, <<"a">>, Supplied[2].name.id) = 1
    /\ CountMessage(NoArgumentGiven) = 1

(***************************************************************************)
(* checkIdentifier on one identifier of the file                           *)
(***************************************************************************)
RECURSIVE NodesOf(_)
NodesOf(node) ==
    {node} \cup UNION {NodesOf(forEachChild(node)[i]) : i \in 1..Len(forEachChild(node))}

Identifiers == {node \in UNION {NodesOf(files[k]) : k \in 1..Len(files)} :
                   node.kind = "Identifier"}

\* r is the result of checkIdentifier(node).
CheckIdentifierFrom(node, parent, r) ==
    /\ bindings' = r.c.symbols
    /\ diagnostics' = r.c.diagnostics
    /\ query' = [op |-> "checkIdentifier", node |-> node.id, text |-> node.text,
                 role |-> parent.kind, exception |-> r.c.exception, result |-> r.value]
    /\ UNCHANGED <<files, parents, options, checkedFileSet, noStrictParametricProductions,
                   sourceFile, productionParametersByName, cancellationRequested, calls>>

CheckIdentifier(node) ==
    /\ query = NoQuery
    /\ CheckIdentifierFrom(node, getParent(node), checkIdentifier(CheckerState, node))

IdentifierNext == \E node \in Identifiers : CheckIdentifier(node)

IdentifierSpec == NonterminalInit /\ [][IdentifierNext]_vars

\* C9: checkIdentifier returns a Production symbol or none for an identifier in a
\* nonterminal or lookahead role, and a Parameter symbol or none for an identifier in a
\* parameter-declaration or argument role.
C9_NamespacesDoNotCross ==
    query.op = "checkIdentifier"
        => /\ query.role \in {"Nonterminal", "LookaheadAssertion"}
                => (~IsDefined(query.result) \/ query.result.kind = "Production")
           /\ query.role \in {"Parameter", "Argument"}
                => (~IsDefined(query.result) \/ query.result.kind = "Parameter")

\* A nonterminal named like a parameter that is in scope where it stands.
C9_Witness ==
    /\ query.op = "checkIdentifier" /\ query.role = "Nonterminal"
    /\ IsDefined(query.result) /\ query.result.kind = "Production"
    /\ query.text \in ParameterScope(files[1].elements[1].name.text)

(***************************************************************************)
(* RightHandSideDigest: the canonical text of an alternative's head and    *)
(* its hash.  Written text is a sequence of characters.                    *)
(***************************************************************************)
LowerCase == <<"a", "b", "c", "d", "e", "f", "g", "h", "i", "j", "k", "l", "m",
               "n", "o", "p", "q", "r", "s", "t", "u", "v", "w", "x", "y", "z">>

UpperCase == <<"A", "B", "C", "D", "E", "F", "G", "H", "I", "J", "K", "L", "M",
               "N", "O", "P", "Q", "R", "S", "T", "U", "V", "W", "X", "Y", "Z">>

Digits == <<"0", "1", "2", "3", "4", "5", "6", "7", "8", "9">>

\* "'" stands for the grave accent that delimits a terminal.
Punctuation == <<" ", "-", "_", "'", "<", ">", "[", "]", ",", "?", "+", "~", ":", "|", "=",
                 "!">>

Range(sequence) == {sequence[i] : i \in 1..Len(sequence)}

\* The characters of a node text; the symbols' texts this model builds are one character.
Characters(text) == IF text = "" THEN <<>> ELSE <<text>>

TokenKinds == {"QuestionToken", "PlusToken", "TildeToken", "ColonToken", "OpenBracketToken",
               "CloseBracketToken", "OpenParenToken", "ButKeyword", "NotKeyword",
               "ThroughKeyword", "EqualsEqualsToken", "ExclamationEqualsToken"}

tokenToString(kind) ==
    CASE kind = "QuestionToken" -> <<"?">>
      [] kind = "PlusToken" -> <<"+">>
      [] kind = "TildeToken" -> <<"~">>
      [] kind = "ColonToken" -> <<":">>
      [] kind = "OpenBracketToken" -> <<"[">>
      [] kind = "CloseBracketToken" -> <<"]">>
      [] kind = "ButKeyword" -> <<"b", "u", "t">>
      [] kind = "NotKeyword" -> <<"n", "o", "t">>
      [] kind = "ThroughKeyword" -> <<"t", "h", "r", "o", "u", "g", "h">>
      [] kind = "EqualsEqualsToken" -> <<"=", "=">>
      [] kind = "ExclamationEqualsToken" -> <<"!", "=">>
      [] OTHER -> <<>>

\* new RightHandSideDigest(), then this.writer = new StringWriter().  events is the
\* history of the writer: "request" and "withdraw" for the assignments of true and
\* false to spaceRequested, "separator" for the space that write inserts, "text" for
\* every text written.
NewDigest == [text |-> <<>>, spaceRequested |-> FALSE, exception |-> "none", events |-> <<>>]

requestSpace(w, requested) ==
    [w EXCEPT !.spaceRequested = requested,
              !.events = Append(@, IF requested THEN "request" ELSE "withdraw")]

write(w, text) ==
    IF text = <<>> THEN w
    ELSE IF w.spaceRequested /\ Len(w.text) > 0
    THEN [w EXCEPT !.spaceRequested = FALSE, !.text = w.text \o <<" ">> \o text,
                   !.events = @ \o <<"separator", "text">>]
    ELSE [w EXCEPT !.text = w.text \o text, !.events = Append(@, "text")]

writeToken(w, node) == requestSpace(write(w, tokenToString(node.kind)), TRUE)

writeIdentifier(w, node) == write(w, Characters(node.text))

RECURSIVE writeNode(_, _)
RECURSIVE writeNodes(_, _, _)
\* forEachChild(node, child => this.writeNode(child))
writeNodes(w, nodes, i) ==
    IF i > Len(nodes) THEN w ELSE writeNodes(writeNode(w, nodes[i]), nodes, i + 1)

writeTerminal(w, node) ==
    requestSpace(
        writeNode(write(write(write(w, <<"'">>), Characters(node.text)), <<"'">>),
                  node.questionToken),
        TRUE)

\* writeUnicodeCharacterLiteral without its two delimiters.
writeUnicodeCharacterLiteralBare(w, node) ==
    requestSpace(writeNode(write(w, Characters(node.text)), node.questionToken), TRUE)

writeUnicodeCharacterLiteral(w, node) ==
    requestSpace(
        writeNode(write(write(write(w, <<"<">>), Characters(node.text)), <<">">>),
                  node.questionToken),
        TRUE)

writeNonterminal(w, node) ==
    requestSpace(
        writeNode(writeNode(writeNode(w, node.name), node.argumentList), node.questionToken),
        TRUE)

RECURSIVE writeArguments(_, _, _)
writeArguments(w, elements, i) ==
    IF i > Len(elements) THEN w
    ELSE writeArguments(
             writeNode(IF i > 1 THEN write(w, <<",", " ">>) ELSE w, elements[i]),
             elements, i + 1)

\* node.elements.length is read unguarded.
writeArgumentList(w, node) ==
    IF ~node.hasElements THEN [w EXCEPT !.exception = "TypeError"]
    ELSE write(writeArguments(write(w, <<"[">>), node.elements, 1), <<"]">>)

writeArgument(w, node) == writeNode(writeNode(w, node.operatorToken), node.name)

writeUnicodeCharacterRange(w, node) ==
    requestSpace(
        writeNode(writeNode(writeNode(w, node.left), node.throughKeyword), node.right),
        TRUE)

writeButNotSymbol(w, node) ==
    requestSpace(
        writeNode(writeNode(writeNode(writeNode(w, node.left), node.butKeyword),
                            node.notKeyword),
                  node.right),
        TRUE)

writeSymbolSpan(w, node) == writeNode(writeNode(w, node.symbol), node.next)

writeProse(w, node) == writeNodes(write(w, <<">", " ">>), node.fragments, 1)

writeProseFragmentLiteral(w, node) == write(w, Characters(node.text))

writeEmptyAssertion(w, node) ==
    requestSpace(write(w, <<"[", "e", "m", "p", "t", "y", "]">>), TRUE)

\* this.spaceRequested = false; this.write("]"); this.spaceRequested = true;
closeAssertion(w) == requestSpace(write(requestSpace(w, FALSE), <<"]">>), TRUE)

writeLexicalGoalAssertion(w, node) ==
    closeAssertion(
        writeNode(write(w, <<"[", "l", "e", "x", "i", "c", "a", "l", " ", "g", "o", "a", "l",
                             " ">>),
                  node.symbol))

writeLookaheadAssertion(w, node) ==
    closeAssertion(
        writeNode(writeNode(write(w, <<"[", "l", "o", "o", "k", "a", "h", "e", "a", "d", " ">>),
                            node.operatorToken),
                  node.lookahead))

RECURSIVE writeAlternatives(_, _, _)
\* The loop of writeNoSymbolHereAssertion and of writeOneOfSymbol.
writeAlternatives(w, symbols, i) ==
    IF i > Len(symbols) THEN w
    ELSE writeAlternatives(
             requestSpace(
                 writeNode(IF i > 1 THEN write(w, <<" ", "o", "r", " ">>) ELSE w, symbols[i]),
                 FALSE),
             symbols, i + 1)

writeNoSymbolHereAssertion(w, node) ==
    write(writeAlternatives(write(w, <<"[", "n", "o", " ">>), node.symbols, 1),
          <<" ", "h", "e", "r", "e", "]">>)

\* writeToken reads the kind of node.operatorToken unguarded.
writeParameterValueAssertion(w, node) ==
    IF ~IsDefined(node.operatorToken) THEN [w EXCEPT !.exception = "TypeError"]
    ELSE requestSpace(
             write(writeNode(requestSpace(writeToken(write(w, <<"[">>), node.operatorToken),
                                          FALSE),
                             node.name),
                   <<"]">>),
             TRUE)

RECURSIVE writeProseFragments(_, _, _)
\* The loop of writeProseAssertion.
writeProseFragments(w, fragments, i) ==
    IF i > Len(fragments) THEN w
    ELSE writeProseFragments(
             IF fragments[i].kind = "Identifier"
             THEN write(requestSpace(writeNode(write(w, <<"|">>), fragments[i]), FALSE),
                        <<"|">>)
             ELSE writeNode(w, fragments[i]),
             fragments, i + 1)

writeProseAssertion(w, node) ==
    requestSpace(
        write(writeProseFragments(requestSpace(write(w, <<"[", ">">>), FALSE),
                                  node.fragments, 1),
              <<"]">>),
        TRUE)

writeOneOfSymbol(w, node) ==
    requestSpace(writeAlternatives(write(w, <<"o", "n", "e", " ", "o", "f", " ">>),
                                   node.symbols, 1),
                 TRUE)

\* Symbol sets are not among the nodes this model builds.
writeNode(w, node) ==
    IF ~IsDefined(node) THEN w
    ELSE CASE node.kind = "Terminal" -> writeTerminal(w, node)
           [] node.kind = "UnicodeCharacterLiteral" -> writeUnicodeCharacterLiteral(w, node)
           [] node.kind = "Nonterminal" -> writeNonterminal(w, node)
           [] node.kind = "UnicodeCharacterRange" -> writeUnicodeCharacterRange(w, node)
           [] node.kind = "ButNotSymbol" -> writeButNotSymbol(w, node)
           [] node.kind = "Prose" -> writeProse(w, node)
           [] node.kind = "EmptyAssertion" -> writeEmptyAssertion(w, node)
           [] node.kind = "LexicalGoalAssertion" -> writeLexicalGoalAssertion(w, node)
           [] node.kind = "LookaheadAssertion" -> writeLookaheadAssertion(w, node)
           [] node.kind = "NoSymbolHereAssertion" -> writeNoSymbolHereAssertion(w, node)
           [] node.kind = "ParameterValueAssertion" -> writeParameterValueAssertion(w, node)
           [] node.kind = "ProseAssertion" -> writeProseAssertion(w, node)
           [] node.kind = "ProseFull" -> writeProseFragmentLiteral(w, node)
           [] node.kind = "OneOfSymbol" -> writeOneOfSymbol(w, node)
           [] node.kind = "SymbolSpan" -> writeSymbolSpan(w, node)
           [] node.kind = "ArgumentList" -> writeArgumentList(w, node)
           [] node.kind = "Argument" -> writeArgument(w, node)
           [] node.kind = "Identifier" -> writeIdentifier(w, node)
           [] node.kind \in TokenKinds -> writeToken(w, node)
           [] OTHER -> writeNodes(w, forEachChild(node), 1)

\* A stand-in for SHA-1 with its interface: a fixed function of the characters of the
\* text, rendered as hexadecimal digits.
HashModulus == 65536

Code(character) ==
    CHOOSE i \in 1..(Len(LowerCase \o UpperCase \o Digits \o Punctuation)) :
        (LowerCase \o UpperCase \o Digits \o Punctuation)[i] = character

RECURSIVE Hash(_, _, _)
Hash(h, text, i) ==
    IF i > Len(text) THEN h ELSE Hash((h * 31 + Code(text[i])) % HashModulus, text, i + 1)

HexDigit(n) == (Digits \o <<"a", "b", "c", "d", "e", "f">>)[n + 1]

\* hash.digest("hex").substr(0, 8)
HexPrefix(h) ==
    <<"0", "0", "0", "0", HexDigit(h \div 4096), HexDigit((h \div 256) % 16),
      HexDigit((h \div 16) % 16), HexDigit(h % 16)>>

\* w is the digest after writeNode(node.head).
hashOf(w) == IF w.exception # "none" THEN <<w.exception>> ELSE HexPrefix(Hash(7, w.text, 1))

\* computeHash with the head's offset written after the head.
computeHashWithOffset(node) ==
    hashOf(write(writeNode(NewDigest, node.head), <<HexDigit((node.head.pos \div 2) % 16)>>))

computeHash(node) == hashOf(writeNode(NewDigest, node.head))

(***************************************************************************)
(* Resolver                                                                *)
(***************************************************************************)
RECURSIVE replaceRuns(_, _, _, _)
\* text.replace(/[^...]+/g, "-") for the character class `kept`: every maximal run of
\* characters outside the class becomes one "-".
replaceRuns(text, i, kept, inRun) ==
    IF i > Len(text) THEN <<>>
    ELSE IF text[i] \in kept THEN <<text[i]>> \o replaceRuns(text, i + 1, kept, FALSE)
    ELSE (IF inRun THEN <<>> ELSE <<"-">>) \o replaceRuns(text, i + 1, kept, TRUE)

\* node.reference.text.replace(/[^a-z0-9]+/g, '-')
replaceNonAlphanumeric(text) == replaceRuns(text, 1, Range(LowerCase) \cup Range(Digits), FALSE)

toLowerCase(text) ==
    [i \in 1..Len(text) |->
        IF text[i] \in Range(UpperCase)
        THEN LowerCase[CHOOSE n \in 1..Len(UpperCase) : UpperCase[n] = text[i]]
        ELSE text[i]]

\* symbol.name, or undefined, as the characters string concatenation makes of it.
getProductionLinkId(node) ==
    IF IsDefined(BindingsResolveSymbol(node, node.text, "Production"))
    THEN Characters(BindingsResolveSymbol(node, node.text, "Production").name)
    ELSE <<"u", "n", "d", "e", "f", "i", "n", "e", "d">>

\* The if (includePrefix) part: production.name is read unguarded.
prefixLinkId(linkId, production, includePrefix) ==
    IF ~includePrefix THEN [exception |-> "none", value |-> linkId]
    ELSE IF ~IsDefined(production) THEN [exception |-> "TypeError", value |-> <<>>]
    ELSE [exception |-> "none",
          value |-> getProductionLinkId(production.name) \o <<"-">> \o linkId]

getRightHandSideLinkId(node, includePrefix) ==
    prefixLinkId(IF IsDefined(node.reference) /\ node.reference.text # <<>>
                 THEN replaceNonAlphanumeric(node.reference.text)
                 ELSE toLowerCase(computeHash(node)),
                 getAncestor(node, "Production"), includePrefix)

(***************************************************************************)
(* Link ids of the alternatives of two productions P                       *)
(***************************************************************************)
MaxQueries == 2

MaxLabel == 3

SymbolShapes == {"TerminalA", "TerminalB", "OptionalA", "NonterminalA", "NonterminalArgument",
                 "ButNot"}

\* `a`, `b`, `a`?, A, A[+a], `a` but not `b`.
ShapedSymbol(shape, s) ==
    CASE shape = "TerminalA" -> Terminal(s, "a", "none")
      [] shape = "TerminalB" -> Terminal(s, "b", "none")
      [] shape = "OptionalA" -> Terminal(s, "a", "QuestionToken")
      [] shape = "NonterminalA" -> Nonterminal(s, "A", undefined, "none")
      [] shape = "NonterminalArgument" ->
            Nonterminal(s, "A",
                        ArgumentList(s + 2, "OpenBracketToken", TRUE, <<<<"PlusToken", "a">>>>,
                                     TRUE),
                        "none")
      [] shape = "ButNot" ->
            ButNotSymbol(s, Terminal(s + 1, "a", "none"), TRUE, TRUE,
                         Terminal(s + 7, "b", "none"))

RECURSIVE ShapedSpan(_, _, _)
\* The symbol span of shapes[i..], its nodes numbered from s.
ShapedSpan(shapes, i, s) ==
    IF i > Len(shapes) THEN undefined
    ELSE SymbolSpan(s, ShapedSymbol(shapes[i], s + 1), ShapedSpan(shapes, i + 1, s + 20))

\* reference: <<>> for no link reference, or <<text>> with the characters of its text.
Alternative(e, shapes, reference) ==
    Production(e, "P", undefined, TRUE,
               RightHandSide(e + 14, ShapedSpan(shapes, 1, e + 20),
                             IF reference = <<>> THEN undefined
                             ELSE LinkReference(e + 15, reference[1])))

AlternativesFile(shapes1, reference1, shapes2, reference2) ==
    SourceFile(FileId(1), "a.grammar",
               <<Alternative(ElementId(1, 1), shapes1, reference1),
                 Alternative(ElementId(1, 2), shapes2, reference2)>>)

HeadShapes == SeqsUpTo(SymbolShapes, 2) \ {<<>>}

LabelCharacters == {"M", "y", " ", "_", "7"}

Labels ==
    (SeqsUpTo(LabelCharacters, MaxLabel) \ {<<>>})
    \cup {<<"M", "y", " ", "L", "a", "b", "e", "l">>}

\* Two alternatives without a label (the second possibly with an empty link reference),
\* or a labelled alternative beside an unlabelled one.
ResolverInit ==
    \/ \E shapes1, shapes2 \in HeadShapes, reference2 \in {<<>>, <<<<>>>>} :
          Constructed(<<AlternativesFile(shapes1, <<>>, shapes2, reference2)>>, FALSE)
    \/ \E shapes1 \in {<<"TerminalA">>, <<"NonterminalA", "TerminalB">>}, label \in Labels :
          Constructed(<<AlternativesFile(shapes1, <<label>>, <<"TerminalA">>, <<>>)>>, FALSE)

\* resolver.getRightHandSideLinkId(<the alternative of production n>, includePrefix)
GetRightHandSideLinkId(n, includePrefix) ==
    /\ Len(calls) < MaxQueries
    /\ query' = [op |-> "getRightHandSideLinkId", alternative |-> n,
                 includePrefix |-> includePrefix,
                 result |-> getRightHandSideLinkId(files[1].elements[n].body, includePrefix)]
    /\ calls' = Append(calls, query')
    /\ UNCHANGED <<files, bindings, parents, options, checkedFileSet, noStrictParametricProductions,
                   sourceFile, productionParametersByName, diagnostics,
                   cancellationRequested>>

ResolverNext ==
    \E n \in 1..Len(files[1].elements), includePrefix \in BOOLEAN :
        GetRightHandSideLinkId(n, includePrefix)

ResolverSpec == ResolverInit /\ [][ResolverNext]_vars

AlternativeOf(call) == files[1].elements[call.alternative].body

Labelled(alternative) ==
    IsDefined(alternative.reference) /\ alternative.reference.text # <<>>

\* The label as the specification sanitizes it: letters of either case and digits kept.
Sanitized(text) ==
    replaceRuns(text, 1, Range(LowerCase) \cup Range(UpperCase) \cup Range(Digits), FALSE)

\* C6: the link id of a labelled alternative is its label with every maximal run of
\* non-alphanumeric characters replaced by one "-" and every letter and digit kept,
\* preceded by the production's link id and "-" when includePrefix is set.
C6_LabelSanitized ==
    \A i \in 1..Len(calls) :
        Labelled(AlternativeOf(calls[i]))
            => /\ calls[i].result.exception = "none"
               /\ calls[i].result.value =
                    (IF calls[i].includePrefix THEN <<"P", "-">> ELSE <<>>)
                    \o Sanitized(AlternativeOf(calls[i]).reference.text)

RECURSIVE Unplaced(_)
\* A node without its identity and offsets: the kinds and texts of its subtree.
Unplaced(node) ==
    [f \in DOMAIN node \ {"id", "pos", "end"} |->
        CASE f \in {"kind", "text", "hasElements"} -> node[f]
          [] f = "elements" -> [i \in DOMAIN node.elements |-> Unplaced(node.elements[i])]
          [] OTHER -> Unplaced(node[f])]

\* C7: two link ids computed for unlabelled alternatives whose heads are equal in kinds
\* and texts are equal, whatever the offsets of the nodes, the link reference node, and
\* the link ids computed before.
C7_DigestOfKindsAndTexts ==
    \A i, j \in 1..Len(calls) :
        (/\ ~Labelled(AlternativeOf(calls[i])) /\ ~Labelled(AlternativeOf(calls[j]))
         /\ calls[i].includePrefix = calls[j].includePrefix
         /\ Unplaced(AlternativeOf(calls[i]).head) = Unplaced(AlternativeOf(calls[j]).head))
            => calls[i].result = calls[j].result

\* Two alternatives of two symbols each, at different offsets, the second with an
\* empty link reference, got the same eight-digit id.
C7_Witness ==
    /\ Len(calls) = 2 /\ calls[1].alternative = 1 /\ calls[2].alternative = 2
    /\ ~calls[1].includePrefix /\ ~calls[2].includePrefix
    /\ IsDefined(AlternativeOf(calls[2]).reference) /\ ~Labelled(AlternativeOf(calls[2]))
    /\ IsDefined(AlternativeOf(calls[1]).head.next)
    /\ Unplaced(AlternativeOf(calls[1]).head) = Unplaced(AlternativeOf(calls[2]).head)
    /\ AlternativeOf(calls[1]).head.pos # AlternativeOf(calls[2]).head.pos
    /\ calls[1].result = calls[2].result /\ Len(calls[1].result.value) = 8


\* C15: a call is skipped only when an earlier call has returned normally on that very
\* file, also when another file carries the same filename.
C15_SkipsOnlyCheckedFile ==
    \A i \in 1..Len(calls) :
        calls[i].outcome = "skipped"
            => \E j \in 1..(i - 1) :
                    /\ calls[j].file = calls[i].file
                    /\ calls[j].outcome \in {"completed", "skipped"}

(***************************************************************************)
(* One file of top-level elements: Define directives of every shape,       *)
(* invalid source elements and productions.                                *)
(***************************************************************************)
DirectiveKeys == {"", "noStrictParametricProductions", "other"}

DirectiveValues == {"none", "TrueKeyword", "FalseKeyword"}

\* <<kind, hasKey, key, value>>
TopLevelShapes ==
    ({"Define"} \X BOOLEAN \X DirectiveKeys \X DirectiveValues)
    \cup {<<"InvalidSourceElement", FALSE, "", "none">>, <<"Production", FALSE, "", "none">>}

TopLevelElement(shape, e) ==
    CASE shape[1] = "Define" -> Define(e, shape[2], shape[3], shape[4])
      [] shape[1] = "InvalidSourceElement" -> InvalidSourceElement(e)
      [] shape[1] = "Production" -> SessionElement("Production", e)

TopLevelInit ==
    \E shapes \in SeqsUpTo(TopLevelShapes, MaxElements), noStrict \in BOOLEAN :
        Constructed(<<SourceFile(FileId(1), "a.grammar",
                        [j \in 1..Len(shapes) |-> TopLevelElement(shapes[j], ElementId(1, j))])>>,
                    noStrict)

ElementSpec == TopLevelInit /\ [][Next]_vars

ProductionExpected(element) == CountAt("_0_expected", <<"Production">>, element.id)

\* The diagnostics located inside a node.
Within(node) ==
    {i \in 1..Len(diagnostics) :
        diagnostics[i].pos >= node.pos /\ diagnostics[i].pos <= node.end}

\* C11 as stated: once the file is checked, every top-level element that is not a
\* production has exactly one 'production expected' diagnostic and no other diagnostic
\* of the checking pass.
C11_NonProductionReported ==
    \A j \in 1..Len(files[1].elements) :
        (Checked(FileId(1), {"completed"}) /\ files[1].elements[j].kind # "Production")
            => ProductionExpected(files[1].elements[j]) = 1

\* C11 (amended): once the file is checked, every InvalidSourceElement has exactly one
\* 'production expected' diagnostic and no other diagnostic inside it, and a Define
\* directive has none: the checking pass leaves directives alone.
C11_InvalidElementReported ==
    \A j \in 1..Len(files[1].elements) :
        Checked(FileId(1), {"completed"})
            => /\ files[1].elements[j].kind = "InvalidSourceElement"
                    => /\ ProductionExpected(files[1].elements[j]) = 1
                       /\ Cardinality(Within(files[1].elements[j])) = 1
               /\ files[1].elements[j].kind = "Define"
                    => ProductionExpected(files[1].elements[j]) = 0

\* A checked file of an invalid element and a directive.
C11_Witness ==
    /\ Checked(FileId(1), {"completed"})
    /\ Len(files[1].elements) = 2
    /\ files[1].elements[1].kind = "InvalidSourceElement"
    /\ files[1].elements[2].kind = "Define"
    /\ ProductionExpected(files[1].elements[1]) = 1
    /\ CountMessage("_0_expected") = 1

(***************************************************************************)
(* The preprocessing pass on one element                                   *)
(***************************************************************************)
\* after is the state preprocessSourceElement(files[1].elements[j]) leaves.
PreprocessSourceElementFrom(j, before, after) ==
    /\ noStrictParametricProductions' = after.noStrictParametricProductions
    /\ diagnostics' = after.diagnostics
    /\ query' = [op |-> "preprocessSourceElement", element |-> j,
                 exception |-> after.exception,
                 saved |-> before.noStrictParametricProductions,
                 from |-> Len(before.diagnostics)]
    /\ UNCHANGED <<files, bindings, parents, options, checkedFileSet, sourceFile,
                   productionParametersByName, cancellationRequested, calls>>

PreprocessSourceElement(j) ==
    /\ query = NoQuery
    /\ PreprocessSourceElementFrom(j, CheckerState,
                                   preprocessSourceElement(CheckerState, files[1].elements[j]))

DirectiveNext == \E j \in 1..Len(files[1].elements) : PreprocessSourceElement(j)

DirectiveSpec == TopLevelInit /\ [][DirectiveNext]_vars

Preprocessed == files[1].elements[query.element]

Emitted == SubSeq(diagnostics, query.from + 1, Len(diagnostics))

Malformed(define) ==
    \/ ~IsDefined(define.key)
    \/ define.key.text = ""
    \/ ~IsDefined(define.valueToken)

\* C12: preprocessing a Define directive returns and does one of three things.  A
\* directive without a key, with an empty key or without a value token emits one
\* '_ expected' diagnostic and keeps the flag; a well-formed directive of another key
\* emits one 'cannot find name' diagnostic at the key and keeps the flag; a well-formed
\* noStrictParametricProductions directive emits nothing and sets the flag to whether
\* its value is the true keyword.
C12_DefineOutcomes ==
    (query.op = "preprocessSourceElement" /\ Preprocessed.kind = "Define")
        => /\ query.exception = "none"
           /\ Malformed(Preprocessed)
                => /\ Len(Emitted) = 1
                   /\ Emitted[1].message = "_0_expected"
                   /\ noStrictParametricProductions = query.saved
           /\ (~Malformed(Preprocessed)
               /\ Preprocessed.key.text # "noStrictParametricProductions")
                => /\ Len(Emitted) = 1
                   /\ Emitted[1].message = "Cannot_find_name_0_"
                   /\ Emitted[1].args = <<Preprocessed.key.text>>
                   /\ Emitted[1].node = Preprocessed.key.id
                   /\ noStrictParametricProductions = query.saved
           /\ (~Malformed(Preprocessed)
               /\ Preprocessed.key.text = "noStrictParametricProductions")
                => /\ Emitted = <<>>
                   /\ noStrictParametricProductions
                        = (Preprocessed.valueToken.kind = "TrueKeyword")

\* A strict checker preprocesses '@define noStrictParametricProductions true'.
C12_Witness ==
    /\ query.op = "preprocessSourceElement" /\ Preprocessed.kind = "Define"
    /\ ~Malformed(Preprocessed)
    /\ Preprocessed.key.text = "noStrictParametricProductions"
    /\ ~query.saved /\ noStrictParametricProductions /\ Emitted = <<>>


(***************************************************************************)
(* Resolver.getDeclarations on one identifier of the file                  *)
(***************************************************************************)
getSymbolMeaning(node) ==
    IF node.kind \in {"Parameter", "Argument", "ParameterValueAssertion"}
    THEN "Parameter" ELSE "Production"

\* Lines 1216-1219: the bound symbol, or the one the binding table resolves.
symbolOfIdentifier(symbols, node, parent) ==
    IF IsDefined(getSymbol(symbols, node)) THEN getSymbol(symbols, node)
    ELSE BindingsResolveSymbol(node, node.text, getSymbolMeaning(parent))

declarationsOfSymbol(symbol) == IF IsDefined(symbol) THEN getDeclarations(symbol) ELSE <<>>

getDeclarationsOfIdentifier(symbols, node) ==
    declarationsOfSymbol(symbolOfIdentifier(symbols, node, getParent(node)))

\* resolver.getDeclarations(node)
GetDeclarations(node) ==
    /\ query = NoQuery
    /\ query' = [op |-> "getDeclarations", node |-> node,
                 bound |-> IsDefined(getSymbol(bindings, node)),
                 result |-> getDeclarationsOfIdentifier(bindings, node)]
    /\ UNCHANGED <<files, bindings, parents, options, checkedFileSet, noStrictParametricProductions,
                   sourceFile, productionParametersByName, diagnostics,
                   cancellationRequested, calls>>

DeclarationsNext == \E node \in Identifiers : GetDeclarations(node)

DeclarationsSpec == NonterminalInit /\ [][DeclarationsNext]_vars

\* C13: getDeclarations on an identifier without a bound symbol returns the
\* declarations of the symbol checkIdentifier resolves for that identifier, and the
\* empty list when checkIdentifier resolves none.
C13_DeclarationsAsChecked ==
    (query.op = "getDeclarations" /\ ~query.bound)
        => query.result = declarationsOfSymbol(checkIdentifier(CheckerState, query.node).value)


(***************************************************************************)
(* Claims about parameter lists of any order and with repeated names       *)
(***************************************************************************)
NamesOf(production) ==
    {ElementsOf(production.parameterList)[i].name.text :
        i \in 1..Len(ElementsOf(production.parameterList))}

\* C14: in strict mode, once the file of the second declaration D is checked, each
\* name has one missing-parameter diagnostic at D's name when the first declaration C
\* lists it and D does not, one at C when D lists it and C does not, and none
\* otherwise, whatever the order of the lists and however often they repeat a name.
C14_MissingPerDistinctName ==
    (~options /\ Checked(SecondDeclared.id, {"completed"}))
        => \A name \in ParameterNames :
            /\ CountAt(MissingParameter, <<"P", name>>, SecondDeclared.name.id) =
                 IF name \in NamesOf(FirstDeclared) \ NamesOf(SecondDeclared) THEN 1 ELSE 0
            /\ CountAt(MissingParameter, <<"P", name>>, FirstDeclared.id) =
                 IF name \in NamesOf(SecondDeclared) \ NamesOf(FirstDeclared) THEN 1 ELSE 0

(***************************************************************************)
(* Claims about checkIdentifier on one identifier                          *)
(***************************************************************************)
\* C16: after checkIdentifier returned for an identifier with a text and a parent, the
\* symbol map holds at that identifier the symbol checkIdentifier returned, under every
\* parent role.
C16_SymbolCached ==
    (query.op = "checkIdentifier" /\ query.text # "" /\ query.exception = "none")
        => getSymbol(bindings, [id |-> query.node]) = query.result

QueriedArgument ==
    Supplied[CHOOSE j \in 1..Len(Supplied) : Supplied[j].name.id = query.node]

Shorthand(argument) ==
    IsDefined(argument.operatorToken) /\ argument.operatorToken.kind = "QuestionToken"

\* The production whose parameter scope the argument's form selects.
ScopeOwner(argument) ==
    IF Shorthand(argument) THEN files[1].elements[1].name.text ELSE Referencing.name.text

DoesNotHaveParameter == "Production_0_does_not_have_a_parameter_named_1_"

\* C17: checkIdentifier on an argument's identifier returns the Parameter symbol of that
\* name in the scope the argument's form selects (the enclosing production for '?', the
\* nonterminal's target otherwise) or none; when the scope's production is known and has
\* no such parameter, it emits one 'does not have a parameter named' diagnostic at the
\* identifier naming that production, and otherwise nothing.
C17_ArgumentScopeByForm ==
    (query.op = "checkIdentifier" /\ query.role = "Argument")
        => /\ query.exception = "none"
           /\ query.result =
                IF query.text \in ParameterScope(ScopeOwner(QueriedArgument))
                THEN ParameterSymbol(ScopeOwner(QueriedArgument), query.text)
                ELSE undefined
           /\ diagnostics =
                IF /\ ScopeOwner(QueriedArgument) \in GlobalScope
                   /\ query.text \notin ParameterScope(ScopeOwner(QueriedArgument))
                THEN <<Diagnostic(query.node, 2 * query.node, DoesNotHaveParameter,
                                  <<ScopeOwner(QueriedArgument), query.text>>)>>
                ELSE <<>>

\* A named argument whose name the enclosing production declares and the target does not.
C17_Witness ==
    /\ query.op = "checkIdentifier" /\ query.role = "Argument"
    /\ ~Shorthand(QueriedArgument)
    /\ Referencing.name.text \in GlobalScope
    /\ query.text \in ParameterScope(files[1].elements[1].name.text)
    /\ query.text \notin ParameterScope(Referencing.name.text)
    /\ ~IsDefined(query.result) /\ Len(diagnostics) = 1


\* C20: in strict mode, once the file is checked and the reference's target resolves,
\* a '+' or '~' argument whose name no other argument of the reference carries and the
\* target does not declare has exactly two 'does not have a parameter named'
\* diagnostics at its name, both naming the target.
C20_UnknownParameterReportedTwice ==
    (/\ ~options
     /\ Referencing.name.text \in GlobalScope
     /\ Checked(Referencing.id, {"completed"}))
        => \A j \in 1..Len(Supplied) :
            (/\ IsDefined(Supplied[j].operatorToken)
             /\ Supplied[j].operatorToken.kind \in {"PlusToken", "TildeToken"}
             /\ \A i \in 1..Len(Supplied) :
                    Supplied[i].name.text = Supplied[j].name.text => i = j
             /\ Supplied[j].name.text \notin ParameterScope(Referencing.name.text))
                => /\ CountAt(DoesNotHaveParameter,
                              <<Referencing.name.text, Supplied[j].name.text>>,
                              Supplied[j].name.id) = 2
                   /\ Cardinality({d \in 1..Len(diagnostics) :
                                      diagnostics[d].node = Supplied[j].name.id}) = 2

\* Q[+b] where Q declares a alone.
C20_Witness ==
    /\ ~options
    /\ Referencing.name.text \in GlobalScope
    /\ Checked(Referencing.id, {"completed"})
    /\ Len(Supplied) = 1
    /\ Supplied[1].operatorToken.kind = "PlusToken"
    /\ Supplied[1].name.text \notin ParameterScope(Referencing.name.text)
    /\ ParameterScope(Referencing.name.text) # {}
    /\ CountMessage(DoesNotHaveParameter) = 2

(***************************************************************************)
(* A production "a" whose alternative is a reference with arguments of     *)
(* every form, closed or not, followed by an empty terminal; and a second  *)
(* production declaration.                                                 *)
(***************************************************************************)
OperatorKinds == {"none", "PlusToken", "QuestionToken"}

\* a[formals] : <target><arguments> ``   and   <other>[otherFormals] : `t`
ArgumentsFile(formals, target, arguments, close, other, otherFormals) ==
    SourceFile(FileId(1), "a.grammar",
        <<Production(ElementId(1, 1), "a",
                     ParameterList(ElementId(1, 1) + 2, "OpenBracketToken", TRUE, formals, TRUE),
                     TRUE,
                     RightHandSide(ElementId(1, 1) + 14,
                         SymbolSpan(ElementId(1, 1) + 20,
                             Nonterminal(ElementId(1, 1) + 21, target,
                                 IF arguments = <<>> THEN undefined
                                 ELSE ArgumentList(ElementId(1, 1) + 23, "OpenBracketToken",
                                                   TRUE, arguments, close),
                                 "none"),
                             SymbolSpan(ElementId(1, 1) + 40,
                                        Terminal(ElementId(1, 1) + 41, "", "none"),
                                        undefined)),
                         undefined)),
          Production(ElementId(1, 2), other,
                     ParameterList(ElementId(1, 2) + 2, "OpenBracketToken", TRUE, otherFormals,
                                   TRUE),
                     TRUE, Body(ElementId(1, 2), Terminal(ElementId(1, 2) + 21, "t", "none")))>>)

ArgumentsInit ==
    \E target, other \in ProductionNames,
       formals, otherFormals \in SeqsUpTo(ArgumentNames, 1),
       arguments \in SeqsUpTo(OperatorKinds \X ArgumentNames, MaxArguments),
       close, noStrict \in BOOLEAN :
        Constructed(<<ArgumentsFile(formals, target, arguments, close, other, otherFormals)>>,
                    noStrict)

ArgumentSpec == ArgumentsInit /\ [][Next]_vars

Following == files[1].elements[1].body.head.next.symbol

OperatorExpected == <<"QuestionToken, PlusToken, TildeToken">>

\* How many '_ expected' diagnostics stand at this offset with these arguments.
ExpectedAt(pos, args) ==
    Cardinality({i \in 1..Len(diagnostics) :
                    /\ diagnostics[i].node = 0 /\ diagnostics[i].pos = pos
                    /\ diagnostics[i].message = "_0_expected" /\ diagnostics[i].args = args})

\* C18: in strict mode, once the file is checked, a reference whose name resolves to no
\* production has one 'cannot find name' diagnostic at its name and no multiple-times,
\* no-argument-given or target-parameter diagnostic; its argument list has its shape
\* diagnostics (a missing closing bracket, a missing operator), and the symbol after
\* the reference has been checked.
C18_UnresolvedReferenceDegrades ==
    (/\ ~options
     /\ Referencing.name.text \notin GlobalScope
     /\ Checked(Referencing.id, {"completed", "TypeError"}))
        => /\ Checked(Referencing.id, {"completed"})
           /\ CountAt("Cannot_find_name_0_", <<Referencing.name.text>>,
                      Referencing.name.id) = 1
           /\ CountMessage("Cannot_find_name_0_") = 1
           /\ CountMessage(SpecifiedMultipleTimes) = 0
           /\ CountMessage(NoArgumentGiven) = 0
           /\ \A i \in 1..Len(diagnostics) :
                diagnostics[i].message = DoesNotHaveParameter
                    => diagnostics[i].args[1] # Referencing.name.text
           /\ IsDefined(Referencing.argumentList)
                => /\ ExpectedAt(Referencing.argumentList.pos, <<"]">>) =
                        IF IsDefined(Referencing.argumentList.closeParenToken) THEN 0 ELSE 1
                   /\ \A j \in 1..Len(Supplied) :
                        ExpectedAt(Supplied[j].pos, OperatorExpected) =
                            IF IsDefined(Supplied[j].operatorToken) THEN 0 ELSE 1
           /\ CountAt("_0_expected", <<"Terminal">>, Following.id) = 1

\* An unresolved reference with an unclosed list of two arguments of one name.
C18_Witness ==
    /\ ~options
    /\ Referencing.name.text \notin GlobalScope
    /\ Checked(Referencing.id, {"completed"})
    /\ Len(Supplied) = 2 /\ Supplied[1].name.text = Supplied[2].name.text
    /\ ~IsDefined(Referencing.argumentList.closeParenToken)
    /\ ExpectedAt(Referencing.argumentList.pos, <<"]">>) = 1
    /\ CountAt("_0_expected", <<"Terminal">>, Following.id) = 1

\* C19: a file checked in non-strict mode gets no missing-parameter, no-argument-given
\* or multiple-times diagnostic, and no diagnostic for an argument without an operator.
C19_NonStrictComparesNothing ==
    options
        => /\ CountMessage(MissingParameter) = 0
           /\ CountMessage(NoArgumentGiven) = 0
           /\ CountMessage(SpecifiedMultipleTimes) = 0
           /\ \A i \in 1..Len(diagnostics) : diagnostics[i].args # OperatorExpected

\* Checked in non-strict mode: a[a] : a[b, b] with operator-less arguments, and a
\* second declaration a[b].
C19_Witness ==
    /\ options
    /\ Checked(Referencing.id, {"completed"})
    /\ Referencing.name.text = "a" /\ files[1].elements[2].name.text = "a"
    /\ NamesOf(files[1].elements[1]) = {"a"} /\ NamesOf(files[1].elements[2]) = {"b"}
    /\ Len(Supplied) = 2
    /\ \A j \in 1..2 : Supplied[j].name.text = "b" /\ ~IsDefined(Supplied[j].operatorToken)


(***************************************************************************)
(* core.ts: binarySearch, as the loop it is.  The query holds the call's    *)
(* arguments, its locals and, once it returned, its result.                *)
(***************************************************************************)
MaxLength == 3

Values == 1..4

\* A state in which no checker runs and q is the call in progress.
Idle(q) ==
    /\ files = <<>>
    /\ options = FALSE
    /\ bindings = BoundByBinder
    /\ parents = ParentsByBinder
    /\ checkedFileSet = NewDictionary
    /\ noStrictParametricProductions = FALSE
    /\ sourceFile = 0
    /\ productionParametersByName = UndefinedParameters
    /\ diagnostics = <<>>
    /\ cancellationRequested = FALSE
    /\ calls = <<>>
    /\ query = q

\* let low = 0; let high = array.length - 1;
binarySearchEntry(array, value) ==
    [op |-> "binarySearch", array |-> array, value |-> value,
     low |-> 0, high |-> Len(array) - 1, returned |-> FALSE, result |-> 0]

\* low + ((high - low) >> 1), for high >= low.
Middle(low, high) == low + ((high - low) \div 2)

\* ~low
Complement(n) == -(n + 1)

\* binarySearchStep with high = middle in place of high = middle - 1.
binarySearchStepKeepingHigh(s) ==
    IF ~(s.low <= s.high) THEN [s EXCEPT !.returned = TRUE, !.result = Complement(s.low)]
    ELSE IF s.array[Middle(s.low, s.high) + 1] = s.value
    THEN [s EXCEPT !.returned = TRUE, !.result = Middle(s.low, s.high)]
    ELSE IF s.array[Middle(s.low, s.high) + 1] > s.value
    THEN [s EXCEPT !.high = Middle(s.low, s.high)]
    ELSE [s EXCEPT !.low = Middle(s.low, s.high) + 1]

\* One evaluation of the loop condition and, if it holds, one iteration.
binarySearchStep(s) ==
    IF ~(s.low <= s.high) THEN [s EXCEPT !.returned = TRUE, !.result = Complement(s.low)]
    ELSE IF s.array[Middle(s.low, s.high) + 1] = s.value
    THEN [s EXCEPT !.returned = TRUE, !.result = Middle(s.low, s.high)]
    ELSE IF s.array[Middle(s.low, s.high) + 1] > s.value
    THEN [s EXCEPT !.high = Middle(s.low, s.high) - 1]
    ELSE [s EXCEPT !.low = Middle(s.low, s.high) + 1]

BinarySearchInit ==
    \E array \in SeqsUpTo(Values, MaxLength), value \in Values :
        Idle(binarySearchEntry(array, value))

BinarySearchStep ==
    /\ ~query.returned
    /\ query' = binarySearchStep(query)
    /\ UNCHANGED <<files, bindings, parents, options, checkedFileSet, noStrictParametricProductions,
                   sourceFile, productionParametersByName, diagnostics,
                   cancellationRequested, calls>>

\* The loop runs to its end: a call in progress always takes its next step.
BinarySearchSpec == BinarySearchInit /\ [][BinarySearchStep]_vars /\ WF_vars(BinarySearchStep)

Ascending(array) == \A i, j \in 1..Len(array) : i < j => array[i] < array[j]

Smaller(array, value) == Cardinality({i \in 1..Len(array) : array[i] < value})

\* C29: every call of binarySearch returns; on a strictly ascending array it returns
\* the (0-based) index of the value when the array holds it, and otherwise -(k+1) for
\* k the number of elements smaller than the value.
C29_BinarySearch ==
    /\ <>query.returned
    /\ [](query.returned /\ Ascending(query.array)
            => IF \E i \in 1..Len(query.array) : query.array[i] = query.value
               THEN query.result >= 0 /\ query.array[query.result + 1] = query.value
               ELSE query.result = Complement(Smaller(query.array, query.value)))

\* The value 3 is searched in <<1, 2, 4>> and not found: the result is ~2.
C29_Witness ==
    /\ query.returned /\ query.array = <<1, 2, 4>> /\ query.value = 3
    /\ query.result = -3

(***************************************************************************)
(* core.ts: Position.compare and Range.intersects                          *)
(***************************************************************************)
MaxLine == 1

MaxCharacter == 2

Positions == [line : 0..MaxLine, character : 0..MaxCharacter]

PositionCompare(left, right) ==
    IF left.line < right.line THEN -1
    ELSE IF left.line > right.line THEN 1
    ELSE IF left.character < right.character THEN -1
    ELSE IF left.character > right.character THEN 1
    ELSE 0

containsPosition(range, position) ==
    PositionCompare(range.start, position) <= 0 /\ PositionCompare(range.end, position) >= 0

intersects(left, right) ==
    containsPosition(left, right.start) \/ containsPosition(left, right.end)

\* The ranges with start <= end.
Ranges == {r \in [start : Positions, end : Positions] : PositionCompare(r.start, r.end) <= 0}

RangeInit == \E left, right \in Ranges : Idle([op |-> "ranges", left |-> left, right |-> right])

\* Range.intersects(left, right)
Intersects ==
    /\ query.op = "ranges"
    /\ query' = [op |-> "intersects", left |-> query.left, right |-> query.right,
                 result |-> intersects(query.left, query.right)]
    /\ UNCHANGED <<files, bindings, parents, options, checkedFileSet, noStrictParametricProductions,
                   sourceFile, productionParametersByName, diagnostics,
                   cancellationRequested, calls>>

RangeSpec == RangeInit /\ [][Intersects]_vars

\* C30: intersects(left, right) is true exactly when some position lies in both ranges.
C30_IntersectsIffShared ==
    query.op = "intersects"
        => (query.result <=>
                \E p \in Positions :
                    /\ PositionCompare(query.left.start, p) <= 0
                    /\ PositionCompare(p, query.left.end) <= 0
                    /\ PositionCompare(query.right.start, p) <= 0
                    /\ PositionCompare(p, query.right.end) <= 0)


(***************************************************************************)
(* core.ts: Dictionary.  The keys of a for-in loop are the object's own     *)
(* keys and then the enumerable members of its prototype; the order among  *)
(* own keys is not modelled.                                               *)
(***************************************************************************)
MaxPuts == 3

RECURSIVE SetToSeq(_)
SetToSeq(S) ==
    IF S = {} THEN <<>>
    ELSE <<CHOOSE k \in S : TRUE>> \o SetToSeq(S \ {CHOOSE k \in S : TRUE})

\* for (const key in object)
forIn(object) == SetToSeq(DOMAIN object) \o SetToSeq(createEmptyPrototype \ DOMAIN object)

DictionaryKeys(dict) ==
    LET Own(key) == DictionaryHas(dict, key)
    IN  SelectSeq(forIn(dict), Own)

DictionaryValues(dict) ==
    [i \in 1..Len(DictionaryKeys(dict)) |-> DictionaryGet(dict, DictionaryKeys(dict)[i])]

DictionaryEntries(dict) ==
    [i \in 1..Len(DictionaryKeys(dict)) |->
        <<DictionaryKeys(dict)[i], DictionaryGet(dict, DictionaryKeys(dict)[i])>>]

\* The calls of callbackfn that Dictionary.forEach makes: (value, key, object).
DictionaryForEach(object) ==
    LET Own(key) == DictionaryHas(object, key)
        keys == SelectSeq(forIn(object), Own)
    IN  [i \in 1..Len(keys) |-> <<object[keys[i]], keys[i], object>>]

DictionaryKeyNames == {"a", "constructor", "toString", "hasOwnProperty"}

DictionaryValueSet == {[kind |-> "value", v |-> 1], [kind |-> "value", v |-> 2]}

DictionaryInit == Idle([op |-> "dictionary", dict |-> NewDictionary, puts |-> <<>>])

\* Dictionary.set(dict, key, value)
SetEntry(key, value) ==
    /\ Len(query.puts) < MaxPuts
    /\ query' = [query EXCEPT !.dict = DictionarySet(@, key, value),
                              !.puts = Append(@, <<key, value>>)]
    /\ UNCHANGED <<files, bindings, parents, options, checkedFileSet, noStrictParametricProductions,
                   sourceFile, productionParametersByName, diagnostics,
                   cancellationRequested, calls>>

DictionaryNext == \E key \in DictionaryKeyNames, value \in DictionaryValueSet : SetEntry(key, value)

DictionarySpec == DictionaryInit /\ [][DictionaryNext]_vars

PutKeys == {query.puts[i][1] : i \in 1..Len(query.puts)}

\* The value of the last set of this key.
LastPut(key) ==
    query.puts[CHOOSE i \in 1..Len(query.puts) :
                  /\ query.puts[i][1] = key
                  /\ \A j \in (i + 1)..Len(query.puts) : query.puts[j][1] # key][2]

Elements(seq) == {seq[i] : i \in 1..Len(seq)}

\* C24: after any sequence of sets on a new Dictionary, has is true of exactly the keys
\* that were set, get returns the value last set (undefined for the other keys, the
\* names of Object.prototype's members included), and keys, values, entries and
\* forEach enumerate each key that was set once, and nothing else.
C24_DictionaryHoldsItsEntries ==
    /\ \A key \in DictionaryKeyNames \cup ObjectPrototypeMembers :
        /\ DictionaryHas(query.dict, key) <=> key \in PutKeys
        /\ DictionaryGet(query.dict, key) =
             IF key \in PutKeys THEN LastPut(key) ELSE undefined
    /\ Elements(DictionaryKeys(query.dict)) = PutKeys
    /\ Len(DictionaryKeys(query.dict)) = Cardinality(PutKeys)
    /\ Len(DictionaryValues(query.dict)) = Cardinality(PutKeys)
    /\ Elements(DictionaryEntries(query.dict)) = {<<key, LastPut(key)>> : key \in PutKeys}
    /\ Elements(DictionaryForEach(query.dict)) =
         {<<LastPut(key), key, query.dict>> : key \in PutKeys}
    /\ \A i \in 1..Len(DictionaryValues(query.dict)) :
         DictionaryValues(query.dict)[i] = LastPut(DictionaryKeys(query.dict)[i])

\* 'constructor' was set twice and 'a' once; 'toString' never.
C24_Witness ==
    /\ Len(query.puts) = 3
    /\ query.puts[1][1] = "constructor" /\ query.puts[3][1] = "constructor"
    /\ query.puts[1][2] # query.puts[3][2]
    /\ query.puts[2][1] = "a"
    /\ DictionaryGet(query.dict, "constructor") = query.puts[3][2]
    /\ ~DictionaryHas(query.dict, "toString")


(***************************************************************************)
(* One production M in each shape checkGrammarProduction distinguishes     *)
(***************************************************************************)
BodyShapes == {"none", "SymbolSpan", "RightHandSide", "OneOfList", "RightHandSideList"}

\* The body of the production at e; "SymbolSpan" is a body of no allowed kind.
ShapedBody(shape, e) ==
    CASE shape = "none" -> undefined
      [] shape = "SymbolSpan" -> SymbolSpan(e + 14, Terminal(e + 15, "t", "none"), undefined)
      [] shape = "RightHandSide" -> Body(e, Terminal(e + 21, "t", "none"))
      [] shape = "OneOfList" ->
            OneOfList(e + 14, TRUE, TRUE, FALSE, TRUE, <<<<"t", "none">>>>, FALSE)
      [] shape = "RightHandSideList" -> RightHandSideList(e + 14, TRUE, TRUE, 1, TRUE)

ShapedProduction(hasList, colon, shape, e) ==
    Production(e, "M",
               IF hasList THEN ParameterList(e + 2, "OpenBracketToken", TRUE, <<"x">>, TRUE)
                          ELSE undefined,
               colon, ShapedBody(shape, e))

\* M before or after a well-formed sibling.
ShapedInit ==
    \E hasList, colon, first, noStrict \in BOOLEAN, shape \in BodyShapes :
        Constructed(<<SourceFile(FileId(1), "a.grammar",
                        IF first
                        THEN <<ShapedProduction(hasList, colon, shape, ElementId(1, 1)),
                               SessionElement("Production", ElementId(1, 2))>>
                        ELSE <<SessionElement("Production", ElementId(1, 1)),
                               ShapedProduction(hasList, colon, shape, ElementId(1, 2))>>)>>,
                    noStrict)

ShapeSpec == ShapedInit /\ [][Next]_vars

TheShaped ==
    files[1].elements[CHOOSE j \in 1..Len(files[1].elements) :
                         files[1].elements[j].name.text = "M"]

\* How many diagnostics with this message and arguments sit at this offset.
CountAtOffset(message, args, pos) ==
    Cardinality({i \in 1..Len(diagnostics) :
                    /\ diagnostics[i].message = message
                    /\ diagnostics[i].args = args
                    /\ diagnostics[i].pos = pos})

CountOf(message, args) ==
    Cardinality({i \in 1..Len(diagnostics) :
                    diagnostics[i].message = message /\ diagnostics[i].args = args})

BodyExpected == <<"OneOfList, RightHandSide">>

\* C23: once the file is checked, a production with its colon token and no body, or a
\* body of no allowed kind, has its one 'body expected' diagnostic at the end offset of
\* the colon token; a production without its colon token has its one 'colon expected'
\* diagnostic at the end of the parameter list if present, else at the end of the name.
C23_StructuralDiagnosticPosition ==
    Checked(TheShaped.id, {"completed"})
        => IF ~IsDefined(TheShaped.colonToken)
           THEN /\ CountOf("_0_expected", <<":">>) = 1
                /\ CountAtOffset("_0_expected", <<":">>,
                       IF IsDefined(TheShaped.parameterList)
                       THEN TheShaped.parameterList.end ELSE TheShaped.name.end) = 1
           ELSE (~IsDefined(TheShaped.body) \/ TheShaped.body.kind = "SymbolSpan")
                    => /\ CountOf("_0_expected", BodyExpected) = 1
                       /\ CountAtOffset("_0_expected", BodyExpected,
                                        TheShaped.colonToken.end) = 1

(***************************************************************************)
(* One production whose body is a one-of list                              *)
(***************************************************************************)
MaxTerminals == 3

TerminalTexts == {"a", "b", ""}

TerminalShapes == TerminalTexts \X {"none", "QuestionToken"}

\* M : one of t1 .. tn, on one line or indented, with or without the closing dedent.
OneOfInit ==
    \E terminals \in SeqsUpTo(TerminalShapes, MaxTerminals), open, close, noStrict \in BOOLEAN :
        /\ close => open
        /\ Constructed(<<SourceFile(FileId(1), "a.grammar",
                           <<Production(ElementId(1, 1), "M", undefined, TRUE,
                                        OneOfList(ElementId(1, 1) + 14, TRUE, TRUE, open,
                                                  TRUE, terminals, close))>>)>>,
                       noStrict)

OneOfSpec == OneOfInit /\ [][Next]_vars

TheTerminals == files[1].elements[1].body.terminals

Repeated(i) == \E j \in 1..(i - 1) : TheTerminals[j].text = TheTerminals[i].text

\* The diagnostics of the terminal well-formedness check at terminal i.
WellFormednessDiagnostics(i) ==
    CountAt("_0_expected", <<"Terminal">>, TheTerminals[i].id)
    + Cardinality({k \in 1..Len(diagnostics) :
                      /\ diagnostics[k].message = "Unexpected_token_0_"
                      /\ diagnostics[k].pos >= TheTerminals[i].pos
                      /\ diagnostics[k].pos <= TheTerminals[i].end})

\* C28: once the file of a one-of list is checked, each terminal whose text equals the
\* text of an earlier terminal has exactly one 'duplicate terminal' diagnostic, at that
\* terminal, and none of the well-formedness check; every other terminal has no
\* 'duplicate terminal' diagnostic and the well-formedness check's result; the
\* 'duplicate terminal' diagnostics number n minus the number of distinct texts.
C28_DuplicateTerminals ==
    Checked(FileId(1), {"completed"})
        => /\ \A i \in 1..Len(TheTerminals) :
                IF Repeated(i)
                THEN /\ CountAt("Duplicate_terminal_0_", <<TheTerminals[i].text>>,
                                TheTerminals[i].id) = 1
                     /\ CountAtOffset("Duplicate_terminal_0_", <<TheTerminals[i].text>>,
                                      TheTerminals[i].pos) = 1
                     /\ WellFormednessDiagnostics(i) = 0
                ELSE /\ CountAtOffset("Duplicate_terminal_0_", <<TheTerminals[i].text>>,
                                      TheTerminals[i].pos) = 0
                     /\ WellFormednessDiagnostics(i) =
                          IF IsDefined(TheTerminals[i].questionToken)
                             \/ TheTerminals[i].text = "" THEN 1 ELSE 0
           /\ CountMessage("Duplicate_terminal_0_") =
                Len(TheTerminals)
                - Cardinality({TheTerminals[i].text : i \in 1..Len(TheTerminals)})

\* a? a b: the second a is a duplicate of a malformed first occurrence.
C28_Witness ==
    /\ Checked(FileId(1), {"completed"})
    /\ Len(TheTerminals) = 3
    /\ TheTerminals[1].text = "a" /\ IsDefined(TheTerminals[1].questionToken)
    /\ TheTerminals[2].text = "a" /\ TheTerminals[3].text = "b"
    /\ CountMessage("Duplicate_terminal_0_") = 1
    /\ CountMessage("Unexpected_token_0_") = 1


(***************************************************************************)
(* A session whose cancellation token may stop reporting cancellation: the *)
(* checker only ever asks the token, whose state is the host's.            *)
(***************************************************************************)
WithdrawCancellation ==
    /\ cancellationRequested
    /\ cancellationRequested' = FALSE
    /\ UNCHANGED <<files, bindings, parents, options, checkedFileSet, noStrictParametricProductions,
                   sourceFile, productionParametersByName, diagnostics, calls, query>>

CancellationNext ==
    \/ \E k \in 1..Len(files) : CheckSourceFile(k)
    \/ RequestCancellation
    \/ WithdrawCancellation

CancellationSpec == Init /\ [][CancellationNext]_vars

\* Call j is the first call on the file of call i, after i, made without cancellation.
FirstUncancelledAfter(i, j) ==
    /\ i < j /\ calls[j].file = calls[i].file /\ ~calls[j].cancelled
    /\ \A k \in (i + 1)..(j - 1) : calls[k].file # calls[i].file \/ calls[k].cancelled

\* C25: a call that aborts on cancellation changes no field of the checker and emits
\* nothing, and the first later call on the same file made without cancellation runs
\* both passes to the end.
C25_CancelledCallLeavesNoTrace ==
    \A i \in 1..Len(calls) :
        calls[i].outcome = "Cancelled"
            => /\ ~calls[i].changed /\ calls[i].to = calls[i].from
               /\ \A j \in 1..Len(calls) :
                    FirstUncancelledAfter(i, j) => calls[j].outcome = "completed"

\* The frame half of C25 alone.
C25_AbortChangesNothing ==
    \A i \in 1..Len(calls) :
        calls[i].outcome = "Cancelled" => ~calls[i].changed /\ calls[i].to = calls[i].from


(***************************************************************************)
(* The strictness mode the productions of a file are checked in            *)
(***************************************************************************)
\* The well-formed noStrictParametricProductions directives among the elements.
ModeDirectives(elements) ==
    {j \in 1..Len(elements) :
        /\ elements[j].kind = "Define"
        /\ IsDefined(elements[j].key)
        /\ elements[j].key.text = "noStrictParametricProductions"
        /\ IsDefined(elements[j].valueToken)}

LastOf(S) == CHOOSE j \in S : \A k \in S : k <= j

\* The mode the last such directive sets, or the configured one.
DirectedMode(elements) ==
    IF ModeDirectives(elements) = {} THEN options
    ELSE elements[LastOf(ModeDirectives(elements))].valueToken.kind = "TrueKeyword"

\* The 'no argument given' diagnostics inside a production: A[x] : A has one when it is
\* checked in strict mode and none otherwise.
StrictDiagnostics(production) ==
    Cardinality({i \in Within(production) :
                    diagnostics[i].message = "There_is_no_argument_given_for_parameter_0_"})

AssertedNames == {"A", "x", "z", ""}

AssertionOperators == {"none", "PlusToken", "TildeToken", "QuestionToken"}

AssertionShapes ==
    ({"LexicalGoalAssertion"} \X {"none"} \X BOOLEAN \X AssertedNames \X BOOLEAN)
    \cup ({"ParameterValueAssertion"} \X AssertionOperators \X BOOLEAN \X AssertedNames
              \X BOOLEAN)

ShapedAssertion(shape, id) ==
    IF shape[1] = "LexicalGoalAssertion"
    THEN LexicalGoalAssertion(id, shape[3], shape[4], shape[5])
    ELSE ParameterValueAssertion(id, shape[2], shape[3], shape[4], shape[5])

\* A[x] : <assertion> t
AssertionFile(shape) ==
    SourceFile(FileId(1), "a.grammar",
        <<Production(ElementId(1, 1), "A",
              ParameterList(ElementId(1, 1) + 2, "OpenBracketToken", TRUE, <<"x">>, TRUE),
              TRUE,
              RightHandSide(ElementId(1, 1) + 14,
                  SymbolSpan(ElementId(1, 1) + 20,
                      ShapedAssertion(shape, ElementId(1, 1) + 21),
                      SymbolSpan(ElementId(1, 1) + 40,
                                 Terminal(ElementId(1, 1) + 41, "t", "none"), undefined)),
                  undefined))>>)

AssertionInit ==
    \E shape \in AssertionShapes, noStrict \in BOOLEAN :
        Constructed(<<AssertionFile(shape)>>, noStrict)

AssertionNext ==
    \/ \E node \in Identifiers : CheckIdentifier(node)
    \/ \E k \in 1..Len(files) : CheckSourceFile(k)

AssertionSpec == AssertionInit /\ [][AssertionNext]_vars

TheAssertion == files[1].elements[1].body.head.symbol

\* The identifier of the assertion, if it has one.
Asserted ==
    IF TheAssertion.kind = "LexicalGoalAssertion" THEN TheAssertion.symbol
    ELSE TheAssertion.name

ResolutionMessages ==
    {"Cannot_find_name_0_", "Production_0_does_not_have_a_parameter_named_1_"}

ResolutionDiagnostics(node) ==
    {i \in 1..Len(diagnostics) :
        diagnostics[i].message \in ResolutionMessages /\ diagnostics[i].node = node.id}

\* checkIdentifier has run on the assertion's identifier, directly or in a file check.
AssertedChecked ==
    \/ query.op = "checkIdentifier" /\ query.node = Asserted.id
    \/ Checked(FileId(1), {"completed"})

\* C27: once checkIdentifier has run on the identifier of a lexical-goal or a
\* parameter-value assertion, whatever its name, no 'cannot find name' and no 'does not
\* have a parameter named' diagnostic sits at it, its entry in the symbol map holds no
\* symbol (the entry exists when the identifier has a text), and the direct call
\* returned no symbol.
C27_AssertionNameUnresolved ==
    (IsDefined(Asserted) /\ AssertedChecked)
        => /\ ResolutionDiagnostics(Asserted) = {}
           /\ getSymbol(bindings, Asserted) = undefined
           /\ Asserted.text # "" => Asserted.id \in DOMAIN bindings
           /\ (query.op = "checkIdentifier" /\ query.node = Asserted.id)
                 => query.result = undefined /\ query.exception = "none"

\* [+z] with z declared nowhere, checked as part of the file and then by a direct call.
C27_Witness ==
    /\ TheAssertion.kind = "ParameterValueAssertion"
    /\ IsDefined(Asserted) /\ Asserted.text = "z"
    /\ Checked(FileId(1), {"completed"})
    /\ query.op = "checkIdentifier" /\ query.node = Asserted.id
    /\ Asserted.id \in DOMAIN bindings

\* [lexical goal z] with z declared nowhere, checked as part of the file.
C27_WitnessLexicalGoal ==
    /\ TheAssertion.kind = "LexicalGoalAssertion"
    /\ IsDefined(Asserted) /\ Asserted.text = "z"
    /\ Checked(FileId(1), {"completed"})
    /\ Asserted.id \in DOMAIN bindings


(***************************************************************************)
(* The canonical text of a head: symbol spans of every symbol variant      *)
(***************************************************************************)
MaxSpan == 2

DigestTexts == {"a", "b"}

DigestVariants ==
    {"Terminal", "OptionalTerminal", "UnicodeCharacterLiteral", "Nonterminal",
     "NonterminalArgument", "Prose", "UnicodeCharacterRange", "ButNotSymbol", "OneOfSymbol",
     "LookaheadAssertion", "LexicalGoalAssertion", "NoSymbolHereAssertion",
     "ParameterValueAssertion", "ProseAssertion"}

\* <<variant, text>>: every variant with each text, the empty assertion, and a
\* nonterminal whose name has no text.
DigestShapes ==
    (DigestVariants \X DigestTexts) \cup {<<"EmptyAssertion", "a">>, <<"Nonterminal", "">>}

\* 't', 't'?, <t>, t, t[+ t], > t, <t> through <b>, 't' but not 'b', one of 't' or 'b',
\* [empty], [lookahead == 't'], [lexical goal t], [no 't' here], [+t], [>t].
DigestSymbol(shape, s) ==
    CASE shape[1] = "Terminal" -> Terminal(s, shape[2], "none")
      [] shape[1] = "OptionalTerminal" -> Terminal(s, shape[2], "QuestionToken")
      [] shape[1] = "UnicodeCharacterLiteral" -> UnicodeCharacterLiteral(s, shape[2], "none")
      [] shape[1] = "Nonterminal" -> Nonterminal(s, shape[2], undefined, "none")
      [] shape[1] = "NonterminalArgument" ->
            Nonterminal(s, shape[2],
                        ArgumentList(s + 2, "OpenBracketToken", TRUE,
                                     <<<<"PlusToken", shape[2]>>>>, TRUE),
                        "none")
      [] shape[1] = "Prose" -> Prose(s, <<ProseFragmentLiteral(s + 2, shape[2])>>)
      [] shape[1] = "UnicodeCharacterRange" ->
            UnicodeCharacterRange(s, UnicodeCharacterLiteral(s + 1, shape[2], "none"), TRUE,
                                  UnicodeCharacterLiteral(s + 5, "b", "none"))
      [] shape[1] = "ButNotSymbol" ->
            ButNotSymbol(s, Terminal(s + 1, shape[2], "none"), TRUE, TRUE,
                         Terminal(s + 7, "b", "none"))
      [] shape[1] = "OneOfSymbol" ->
            OneOfSymbol(s, <<Terminal(s + 3, shape[2], "none"), Terminal(s + 5, "b", "none")>>)
      [] shape[1] = "EmptyAssertion" -> EmptyAssertion(s)
      [] shape[1] = "LookaheadAssertion" ->
            LookaheadAssertion(s, "EqualsEqualsToken", Terminal(s + 4, shape[2], "none"))
      [] shape[1] = "LexicalGoalAssertion" -> LexicalGoalAssertion(s, TRUE, shape[2], TRUE)
      [] shape[1] = "NoSymbolHereAssertion" ->
            NoSymbolHereAssertion(s, <<Terminal(s + 3, shape[2], "none")>>)
      [] shape[1] = "ParameterValueAssertion" ->
            ParameterValueAssertion(s, "PlusToken", TRUE, shape[2], TRUE)
      [] shape[1] = "ProseAssertion" ->
            ProseAssertion(s, <<ProseFragmentLiteral(s + 2, shape[2])>>)

RECURSIVE DigestSpan(_, _, _)
\* The symbol span of shapes[i..], its nodes numbered from s.
DigestSpan(shapes, i, s) ==
    IF i > Len(shapes) THEN undefined
    ELSE SymbolSpan(s, DigestSymbol(shapes[i], s + 1), DigestSpan(shapes, i + 1, s + 20))

DigestHeads == SeqsUpTo(DigestShapes, MaxSpan) \ {<<>>}

DigestInit == \E shapes \in DigestHeads : Idle([op |-> "head", shapes |-> shapes])

\* this.writer = new StringWriter(); this.writeNode(node.head);
CanonicalText(shapes) == writeNode(NewDigest, DigestSpan(shapes, 1, 20))

WriteHead ==
    /\ query.op = "head"
    /\ query' = [op |-> "digest", shapes |-> query.shapes, w |-> CanonicalText(query.shapes)]
    /\ UNCHANGED <<files, bindings, parents, options, checkedFileSet, noStrictParametricProductions,
                   sourceFile, productionParametersByName, diagnostics,
                   cancellationRequested, calls>>

DigestSpec == DigestInit /\ [][WriteHead]_vars

\* Every symbol of the head has a text.
Worded(shapes) == \A i \in 1..Len(shapes) : shapes[i][2] # ""

PreviousText(events, i) ==
    IF \E j \in 1..(i - 1) : events[j] = "text"
    THEN CHOOSE j \in 1..(i - 1) :
             events[j] = "text" /\ \A k \in (j + 1)..(i - 1) : events[k] # "text"
    ELSE 0

\* C22: while the canonical text of a head is built, every separator space is inserted
\* after some text was written and after a space was requested since the last text
\* written before it, no two separators are inserted between two written texts, and the
\* canonical text does not start with a space.
C22_SeparatorOnlyWhenRequested ==
    query.op = "digest"
        => /\ \A i \in 1..Len(query.w.events) :
                query.w.events[i] = "separator"
                    => /\ PreviousText(query.w.events, i) > 0
                       /\ \E k \in (PreviousText(query.w.events, i) + 1)..(i - 1) :
                              query.w.events[k] = "request"
                       /\ i < Len(query.w.events) /\ query.w.events[i + 1] = "text"
           /\ query.w.text # <<>> => query.w.text[1] # " "

\* C22 without its second clause: a separator is inserted only into a non-empty output,
\* at most one between two written texts, and the text does not start with a space.
C22_NoLeadingSeparator ==
    query.op = "digest"
        => /\ \A i \in 1..Len(query.w.events) :
                query.w.events[i] = "separator"
                    => /\ PreviousText(query.w.events, i) > 0
                       /\ i < Len(query.w.events) /\ query.w.events[i + 1] = "text"
           /\ query.w.text # <<>> => query.w.text[1] # " "

=============================================================================
